---------------------------- MODULE Spec2Model ----------------------------
(***************************************************************************)
(* A model of the rdf-rs crate: the character reader (InputReader), the    *)
(* N-Triples and Turtle lexers, the N-Triples and Turtle parsers, the      *)
(* Graph they build and the Turtle writer.                                 *)
(*                                                                         *)
(* Text is a sequence of one-character strings.  Rust's Option<char> None  *)
(* (end of the stream) is the value NoneChar.  Every fallible function of  *)
(* the source returns a record [err, v, r]: err = "Ok" for Ok(v), or the   *)
(* ErrorType; r is the reader (lexer, parser) state the call leaves        *)
(* behind, which matters wherever the source discards an error.            *)
(*                                                                         *)
(* A binding `let x = g(..); rest` of the source is written                *)
(* The({rest : x \in {g(..)}}): the value of rest for x = g(..).            *)
(***************************************************************************)
EXTENDS Integers, Sequences, FiniteSets, TLC

VARIABLES
    doc,      \* what the run works on: the document (as written) or graph
    mode,     \* which entry point the run exercises
    lexer,    \* the parser's lexer: input_reader and peeked_token
    graph,    \* the Graph that decode builds
    result    \* "running", or decode's return value

vars == <<doc, mode, lexer, graph, result>>

----------------------------------------------------------------------------
(* Characters and strings *)

NoneChar == "None"

\* Option<T>: <<>> is None, <<x>> is Some(x)
NoneOpt == <<>>
Some(x) == <<x>>

\* InputChars::to_string: the characters without the None entries
to_string(chars) == SelectSeq(chars, LAMBDA c : c # NoneChar)

whitespace == {"\n", "\r", " "}
line_break == {"\n", "\r"}
node_delimiter == {"\n", "\r", " ", "."}
digit == {"0", "1", "2", "3", "4", "5", "6", "7", "8", "9"}

----------------------------------------------------------------------------
(* Results *)

\* the element of a set of one element
The(S) == CHOOSE x \in S : TRUE

Ok(v, r) == [err |-> "Ok", v |-> v, r |-> r]
Err(kind, v, r) == [err |-> kind, v |-> v, r |-> r]
IsOk(x) == x.err = "Ok"

----------------------------------------------------------------------------
(* InputReader: input is the stream (a Cursor over the text: the text and  *)
(* the position of the next unread character), peeked_chars the pushback   *)
(* buffer.  A Cursor over a String yields valid UTF-8 and no I/O error, so  *)
(* get_next_char is modelled on scalars and never fails.                    *)

InputReader_new(text) == [input |-> text, pos |-> 1, peeked_chars |-> <<>>]

get_next_char(r) ==
    IF Len(r.peeked_chars) > 0
    THEN [c |-> Head(r.peeked_chars), r |-> [r EXCEPT !.peeked_chars = Tail(@)]]
    ELSE IF r.pos <= Len(r.input)
         THEN [c |-> r.input[r.pos], r |-> [r EXCEPT !.pos = @ + 1]]
         ELSE [c |-> NoneChar, r |-> r]

consume_next_char(r) == get_next_char(r).r

\* the loop of get_next_k_chars: acc is what has been read so far
RECURSIVE get_next_k_chars_loop(_, _, _)
get_next_k_chars_loop(r, k, acc) ==
    IF k = 0 THEN [chars |-> acc, r |-> r]
    ELSE The({get_next_k_chars_loop(n.r, k - 1, Append(acc, n.c)) :
              n \in {get_next_char(r)}})

get_next_k_chars(r, k) == get_next_k_chars_loop(r, k, <<>>)

\* a peek that forgets what it read
peek_next_k_chars_forgetful(r, k) ==
    IF Len(r.peeked_chars) >= k
    THEN [chars |-> SubSeq(r.peeked_chars, 1, k), r |-> r]
    ELSE get_next_k_chars(r, k)

peek_next_k_chars(r, k) ==
    IF Len(r.peeked_chars) >= k
    THEN [chars |-> SubSeq(r.peeked_chars, 1, k), r |-> r]
    ELSE The({[chars |-> n.chars, r |-> [n.r EXCEPT !.peeked_chars = n.chars]] :
              n \in {get_next_k_chars(r, k)}})

peek_next_char(r) ==
    The({[c |-> p.chars[1], r |-> p.r] : p \in {peek_next_k_chars(r, 1)}})

RECURSIVE get_next_char_discard_leading_spaces(_)
get_next_char_discard_leading_spaces(r) ==
    The({IF n.c \in {" ", "\n", "\t", "\r"}
         THEN get_next_char_discard_leading_spaces(n.r)
         ELSE n :
         n \in {get_next_char(r)}})

peek_next_char_discard_leading_spaces(r) ==
    The({IF n.c # NoneChar /\ Len(n.r.peeked_chars) <= 0
         THEN [c |-> n.c, r |-> [n.r EXCEPT !.peeked_chars = Append(@, n.c)]]
         ELSE n :
         n \in {get_next_char_discard_leading_spaces(r)}})

\* the loop of get_until: buf is what has been read so far
RECURSIVE get_until_loop(_, _, _)
get_until_loop(r, delimiter, buf) ==
    IF get_next_char(r).c = NoneChar
    THEN Err("EndOfInput", buf, get_next_char(r).r)
    ELSE IF get_next_char(r).c \in delimiter
         THEN Ok(buf, [get_next_char(r).r EXCEPT
                           !.peeked_chars = <<get_next_char(r).c>> \o @])
         ELSE get_until_loop(get_next_char(r).r, delimiter,
                             Append(buf, get_next_char(r).c))

\* a get_until that consumes the delimiter
get_until_consuming(r, delimiter) ==
    The({IF IsOk(g) THEN Ok(g.v, consume_next_char(g.r)) ELSE g :
         g \in {get_until_loop(r, delimiter, <<>>)}})

get_until(r, delimiter) == get_until_loop(r, delimiter, <<>>)

\* while whitespaces(self.peek_next_char()?.unwrap_or('x')) { consume }
RECURSIVE skip_leading_whitespaces(_)
skip_leading_whitespaces(r) ==
    The({IF (IF p.c = NoneChar THEN "x" ELSE p.c) \in whitespace
         THEN skip_leading_whitespaces(consume_next_char(p.r))
         ELSE p.r :
         p \in {peek_next_char(r)}})

get_until_discard_leading_spaces(r, delimiter) ==
    get_until(skip_leading_whitespaces(r), delimiter)

peek_until(r, delimiter) ==
    The({IF IsOk(g) THEN Ok(g.v, [g.r EXCEPT !.peeked_chars = g.v \o @]) ELSE g :
         g \in {get_until(r, delimiter)}})

peek_until_discard_leading_spaces(r, delimiter) ==
    The({IF IsOk(g) THEN Ok(g.v, [g.r EXCEPT !.peeked_chars = g.v \o @]) ELSE g :
         g \in {get_until_discard_leading_spaces(r, delimiter)}})

----------------------------------------------------------------------------
(* Tokens (reader/lexer/token.rs): k is the variant, a, b, c its strings *)

T0(k) == [k |-> k]
T1(k, a) == [k |-> k, a |-> a]
T2(k, a, b) == [k |-> k, a |-> a, b |-> b]
T3(k, a, b, c) == [k |-> k, a |-> a, b |-> b, c |-> c]

----------------------------------------------------------------------------
(* Program constants: the schema names of specs/xml_specs.rs and            *)
(* specs/rdf_syntax_specs.rs                                                 *)

XmlSchemaName ==
    <<"h","t","t","p",":","/","/","w","w","w",".","w","3",".","o","r","g","/",
      "2","0","0","1","/","X","M","L","S","c","h","e","m","a","#">>
XmlDataTypes_Integer == XmlSchemaName \o <<"i","n","t","e","g","e","r">>
XmlDataTypes_Double == XmlSchemaName \o <<"d","o","u","b","l","e">>
XmlDataTypes_Decimal == XmlSchemaName \o <<"d","e","c","i","m","a","l">>
XmlDataTypes_Boolean == XmlSchemaName \o <<"b","o","o","l","e","a","n">>
XmlDataTypes_Long == XmlSchemaName \o <<"l","o","n","g">>
XmlDataTypes_UnsignedLong ==
    XmlSchemaName \o <<"u","n","s","i","g","n","e","d","L","o","n","g">>

RdfSchemaName ==
    <<"h","t","t","p",":","/","/","w","w","w",".","w","3",".","o","r","g","/",
      "1","9","9","9","/","0","2","/","2","2","-","r","d","f","-","s","y","n",
      "t","a","x","-","n","s","#">>
RdfSyntaxDataTypes_A == RdfSchemaName \o <<"t","y","p","e">>
RdfSyntaxDataTypes_ListFirst == RdfSchemaName \o <<"f","i","r","s","t">>
RdfSyntaxDataTypes_ListRest == RdfSchemaName \o <<"r","e","s","t">>
RdfSyntaxDataTypes_ListNil == RdfSchemaName \o <<"n","i","l">>

----------------------------------------------------------------------------
(* specs/turtle_specs.rs: str::parse::<bool>, ::<i64> and ::<f64> as        *)
(* recognizers of the strings they accept                                    *)

RECURSIVE AllDigits(_)
AllDigits(s) == s = <<>> \/ (Head(s) \in digit /\ AllDigits(Tail(s)))

StripSign(s) == IF s # <<>> /\ Head(s) \in {"+", "-"} THEN Tail(s) ELSE s

\* the longest prefix of s made of digits
RECURSIVE DigitPrefixLen(_)
DigitPrefixLen(s) ==
    IF s # <<>> /\ Head(s) \in digit THEN 1 + DigitPrefixLen(Tail(s)) ELSE 0

Drop(s, n) == SubSeq(s, n + 1, Len(s))

is_boolean_literal(s) ==
    s \in {<<"t","r","u","e">>, <<"f","a","l","s","e">>}

\* i64: an optional sign and at least one digit (below 19 digits no overflow)
is_integer_literal(s) ==
    StripSign(s) # <<>> /\ AllDigits(StripSign(s)) /\ Len(StripSign(s)) < 19

\* the exponent of an f64, or nothing: e|E [sign] digits+
IsExponent(s) ==
    \/ s = <<>>
    \/ /\ Head(s) \in {"e", "E"}
       /\ StripSign(Tail(s)) # <<>>
       /\ AllDigits(StripSign(Tail(s)))

\* an unsigned f64 that is not inf or nan: digits [. digits] [exp] with a
\* digit on one side of the point
IsDecimalNumber(u) ==
    IF Drop(u, DigitPrefixLen(u)) # <<>> /\ u[DigitPrefixLen(u) + 1] = "."
    THEN /\ DigitPrefixLen(u) + DigitPrefixLen(Drop(u, DigitPrefixLen(u) + 1)) > 0
         /\ IsExponent(Drop(u, DigitPrefixLen(u) + 1
                               + DigitPrefixLen(Drop(u, DigitPrefixLen(u) + 1))))
    ELSE DigitPrefixLen(u) > 0 /\ IsExponent(Drop(u, DigitPrefixLen(u)))

\* f64: [sign] (inf | infinity | nan | number)
is_double_literal(s) ==
    \/ StripSign(s) \in {<<"i","n","f">>, <<"n","a","n">>,
                         <<"i","n","f","i","n","i","t","y">>}
    \/ IsDecimalNumber(StripSign(s))

----------------------------------------------------------------------------
(* Lexer rules shared by the N-Triples and Turtle lexers                    *)
(* (reader/lexer/n_triples_lexer.rs)                                        *)

\* get_comment failing on a comment that the end of the input closes
\* a comment scanner that returns the token and leaves the input untouched
get_comment_peeking(r0) ==
    Ok(T1("Comment", <<>>), r0)

get_comment_strict(r0) ==
    The({IF IsOk(g)
         THEN Ok(T1("Comment", to_string(g.v)), consume_next_char(g.r))
         ELSE Err("InvalidReaderInput", g.v, g.r) :
         g \in {get_until_discard_leading_spaces(
                    consume_next_char(r0),      \* consume '#'
                    line_break)}})

get_comment(r0) ==
    The({IF IsOk(g)
         THEN Ok(T1("Comment", to_string(g.v)), consume_next_char(g.r))
         ELSE Ok(T1("Comment", to_string(g.v)), g.r) :
         g \in {get_until_discard_leading_spaces(
                    consume_next_char(r0),      \* consume '#'
                    line_break)}})

get_language_specification(r) ==
    The({Ok(to_string(g.v), g.r) : g \in {get_until(r, {"\n", "\r", " ", "."})}})

get_uri(r0) ==
    The({IF IsOk(g)
         THEN Ok(T1("Uri", to_string(g.v)), consume_next_char(g.r))
         ELSE g :
         g \in {get_until(consume_next_char(r0),  \* consume '<'
                          {">"})}})

get_blank_node(r0) ==
    The({IF n.c # ":"
         THEN Err("InvalidReaderInput", <<>>, n.r)
         ELSE The({Ok(T1("BlankNode", to_string(g.v)), g.r) :
                   g \in {get_until(n.r, {"\n", "\r", " ", "."})}}) :
         n \in {get_next_char(consume_next_char(r0))}})   \* consume '_'

RECURSIVE get_qname(_)

\* the data type of a literal, after the ^^
get_literal_data_type(r0, literal, isTurtle) ==
    The({CASE q.c = "<" ->
                The({IF IsOk(u)
                     THEN Ok(T2("LiteralWithUrlDatatype", literal, u.v.a), u.r)
                     ELSE u :
                     u \in {get_uri(q.r)}})
           [] q.c = NoneChar -> Err("InvalidReaderInput", <<>>, q.r)
           [] OTHER ->
                IF isTurtle
                THEN The({IF IsOk(n)
                          THEN Ok(T3("LiteralWithQNameDatatype", literal,
                                     n.v.a, n.v.b), n.r)
                          ELSE n :
                          n \in {get_qname(q.r)}})
                ELSE Err("InvalidReaderInput", <<>>, q.r) :
         q \in {peek_next_char(r0)}})

\* the part of get_literal after the closing quote: the same in both lexers
\* but for the QName data type, which only Turtle reads, and for the plain
\* literal, after which only the N-Triples lexer consumes one more character
get_literal_suffix(r0, literal, isTurtle) ==
    The({CASE p.c = "@" ->
                The({Ok(T2("LiteralWithLanguageSpecification", literal, l.v), l.r) :
                     l \in {get_language_specification(consume_next_char(p.r))}})
           [] p.c = "^" ->
                get_literal_data_type(consume_next_char(consume_next_char(p.r)),
                                      literal, isTurtle)
           [] OTHER ->
                IF isTurtle
                THEN Ok(T1("Literal", literal), p.r)
                ELSE Ok(T1("Literal", literal), consume_next_char(p.r)) :
         p \in {peek_next_char(r0)}})

----------------------------------------------------------------------------
(* NTriplesLexer (reader/lexer/n_triples_lexer.rs) *)

NTriples_get_literal(r0) ==
    The({IF IsOk(g)
         THEN get_literal_suffix(consume_next_char(g.r), to_string(g.v), FALSE)
         ELSE g :
         g \in {get_until(consume_next_char(r0),  \* consume '"'
                          {"\""})}})

\* the lexer state is [input_reader, peeked_token]
Lexer_new(text) ==
    [input_reader |-> InputReader_new(text), peeked_token |-> NoneOpt]

\* a result of a rule, which works on the reader, as a result of the lexer lx
WithReader(lx, res) == [res EXCEPT !.r = [lx EXCEPT !.input_reader = res.r]]

NTriples_get_next_token(lx) ==
    IF lx.peeked_token # NoneOpt
    THEN Ok(lx.peeked_token[1], [lx EXCEPT !.peeked_token = NoneOpt])
    ELSE WithReader(lx,
             The({CASE p.c = "#" -> get_comment(p.r)
                    [] p.c = "\"" -> NTriples_get_literal(p.r)
                    [] p.c = "<" -> get_uri(p.r)
                    [] p.c = "_" -> get_blank_node(p.r)
                    [] p.c = "." -> Ok(T0("TripleDelimiter"), consume_next_char(p.r))
                    [] p.c = NoneChar -> Ok(T0("EndOfInput"), p.r)
                    [] OTHER -> Err("InvalidReaderInput", <<>>, p.r) :
                  p \in {peek_next_char_discard_leading_spaces(lx.input_reader)}}))

NTriples_peek_next_token(lx) ==
    IF lx.peeked_token # NoneOpt
    THEN Ok(lx.peeked_token[1], lx)
    ELSE The({IF IsOk(n)
              THEN Ok(n.v, [n.r EXCEPT !.peeked_token = Some(n.v)])
              ELSE n :
              n \in {NTriples_get_next_token(lx)}})

----------------------------------------------------------------------------
(* TurtleLexer (reader/lexer/turtle_lexer.rs) *)

to_lowercase(s) ==
    [i \in 1..Len(s) |->
        CASE s[i] = "B" -> "b" [] s[i] = "A" -> "a" [] s[i] = "S" -> "s"
          [] s[i] = "E" -> "e" [] s[i] = "P" -> "p" [] s[i] = "R" -> "r"
          [] s[i] = "F" -> "f" [] s[i] = "I" -> "i" [] s[i] = "X" -> "x"
          [] OTHER -> s[i]]

get_base_directive(r0) ==
    The({IF to_lowercase(to_string(p.chars)) # <<"b","a","s","e"," ">>
         THEN Err("InvalidReaderInput", <<>>, p.r)
         ELSE The({IF IsOk(u) THEN Ok(T1("BaseDirective", u.v.a), u.r) ELSE u :
                   u \in {get_uri(get_until(p.r, {"<"}).r)}}) :   \* consume 'base'
         p \in {peek_next_k_chars(r0, 5)}})

get_prefix_directive(r0) ==
    The({IF to_lowercase(to_string(p.chars)) # <<"p","r","e","f","i","x"," ">>
         THEN Err("InvalidReaderInput", <<>>, p.r)
         ELSE The({IF ~IsOk(n) THEN n
                   ELSE The({IF IsOk(u)
                             THEN Ok(T2("PrefixDirective",
                                        Append(to_string(n.v), ":"), u.v.a), u.r)
                             ELSE u :
                             u \in {get_uri(get_until(n.r, {"<"}).r)}}) :
                   n \in {get_until_discard_leading_spaces(
                              get_until(p.r, {" "}).r,       \* consume 'prefix'
                              {":"})}}) :
         p \in {peek_next_k_chars(r0, 7)}})

get_base_or_prefix(r0) ==
    The({CASE p.c \in {"b", "B"} -> get_base_directive(p.r)
           [] p.c \in {"p", "P"} -> get_prefix_directive(p.r)
           [] OTHER -> Err("InvalidReaderInput", <<>>, p.r) :
         p \in {peek_next_char(r0)}})

\* the end of get_numeric: numeric is an integer, a double or no number
get_numeric_token(numeric, r1) ==
    IF is_integer_literal(to_string(numeric))
    THEN Ok(T2("LiteralWithUrlDatatype", to_string(numeric),
               XmlDataTypes_Integer), r1)
    ELSE IF is_double_literal(to_string(numeric))
         THEN Ok(T2("LiteralWithUrlDatatype", to_string(numeric),
                    XmlDataTypes_Double), r1)
         ELSE Err("InvalidReaderInput", <<>>, r1)

\* the arm of get_numeric for a decimal point after numeric
get_numeric_decimal(numeric, r1) ==
    The({IF IsOk(pu) /\ is_double_literal(to_string(numeric \o <<".">> \o pu.v))
         THEN The({IF IsOk(c)
                   THEN Ok(T2("LiteralWithUrlDatatype",
                              to_string(numeric \o <<".">> \o pu.v),
                              XmlDataTypes_Double), c.r)
                   ELSE c :
                   c \in {get_until_discard_leading_spaces(pu.r, node_delimiter)}})
         ELSE get_numeric_token(numeric, pu.r) :
         pu \in {peek_until(r1, node_delimiter)}})

get_numeric(r0) ==
    The({IF ~IsOk(g) THEN g
         ELSE The({IF n.c = "."
                   THEN get_numeric_decimal(g.v, n.r)
                   ELSE get_numeric_token(g.v, n.r) :
                   n \in {get_next_char(g.r)}}) :
         g \in {get_until_discard_leading_spaces(r0, node_delimiter)}})

get_boolean_literal(r0) ==
    The({IF ~IsOk(b) THEN b
         ELSE IF is_boolean_literal(to_string(b.v))
              THEN Ok(T2("LiteralWithUrlDatatype", to_string(b.v),
                         XmlDataTypes_Boolean), b.r)
              ELSE Err("InvalidReaderInput", <<>>, b.r) :
         b \in {peek_until_discard_leading_spaces(r0, node_delimiter)}})

get_a_keyword(r0) ==
    The({IF ~IsOk(a) THEN a
         ELSE IF Len(a.v) = 1 /\ a.v[1] = "a"
              THEN Ok(T0("KeywordA"), a.r)
              ELSE Err("InvalidReaderInput", <<>>, a.r) :
         a \in {peek_until_discard_leading_spaces(r0, node_delimiter)}})

get_qname(r0) ==
    The({IF ~IsOk(g) THEN g
         ELSE The({Ok(T2("QName", Append(to_string(g.v), ":"), to_string(p.v)), p.r) :
                   p \in {get_until(consume_next_char(g.r), node_delimiter)}}) :
         g \in {get_until(r0, {":"})}})

\* the while loop of get_literal: literal is what has been read so far
RECURSIVE get_literal_loop(_, _, _, _)
get_literal_loop(r, literal_delimiter, is_multiline, literal) ==
    The({IF ~IsOk(g) THEN g
         ELSE IF ~is_multiline THEN Ok(literal \o to_string(g.v), g.r)
         ELSE The({IF p.chars[1] = literal_delimiter
                      /\ p.chars[2] = literal_delimiter
                   THEN Ok(literal \o to_string(g.v),
                           consume_next_char(consume_next_char(p.r)))
                   ELSE The({get_literal_loop(k.r, literal_delimiter, is_multiline,
                                 literal \o to_string(g.v) \o to_string(k.chars)) :
                             k \in {get_next_k_chars(p.r, 1)}}) :
                   p \in {peek_next_k_chars(g.r, 2)}}) :
         g \in {get_until(r, {literal_delimiter})}})

\* the start of get_literal: the opening quote or quotes
get_literal_start(r0) ==
    The({The({IF q.chars[1] = d.c /\ q.chars[2] = d.c
              THEN [literal_delimiter |-> d.c, is_multiline |-> TRUE,
                    r |-> get_next_k_chars(q.r, 2).r]
              ELSE [literal_delimiter |-> d.c, is_multiline |-> FALSE, r |-> q.r] :
              q \in {peek_next_k_chars(d.r, 2)}}) :
         d \in {get_next_char(r0)}})

Turtle_get_literal(r0) ==
    The({The({IF ~IsOk(l) THEN l
              ELSE get_literal_suffix(consume_next_char(l.r), l.v, TRUE) :
              l \in {get_literal_loop(s.r, s.literal_delimiter, s.is_multiline,
                                      <<>>)}}) :
         s \in {get_literal_start(r0)}})

\* match rule { Ok(token) => return Ok(token), _ => {} } ... get_qname
OrQName(res) == IF IsOk(res) THEN res ELSE get_qname(res.r)

\* get_numeric(..).or_else(|_| Ok(Token::TripleDelimiter))
OrTripleDelimiter(res) ==
    IF IsOk(res) THEN res ELSE Ok(T0("TripleDelimiter"), res.r)

Turtle_get_next_token(lx) ==
    IF lx.peeked_token # NoneOpt
    THEN Ok(lx.peeked_token[1], [lx EXCEPT !.peeked_token = NoneOpt])
    ELSE WithReader(lx,
             The({CASE p.c = "#" -> get_comment(p.r)
                    [] p.c = "@" -> get_base_or_prefix(consume_next_char(p.r))
                    [] p.c \in {"\"", "'"} -> Turtle_get_literal(p.r)
                    [] p.c = "<" -> get_uri(p.r)
                    [] p.c = "_" -> get_blank_node(p.r)
                    [] p.c = "." -> OrTripleDelimiter(get_numeric(p.r))
                    [] p.c = "," ->
                         Ok(T0("ObjectListDelimiter"), consume_next_char(p.r))
                    [] p.c = ";" ->
                         Ok(T0("PredicateListDelimiter"), consume_next_char(p.r))
                    [] p.c = "(" -> Ok(T0("CollectionStart"), consume_next_char(p.r))
                    [] p.c = ")" -> Ok(T0("CollectionEnd"), consume_next_char(p.r))
                    [] p.c = "[" ->
                         Ok(T0("UnlabeledBlankNodeStart"), consume_next_char(p.r))
                    [] p.c = "]" ->
                         Ok(T0("UnlabeledBlankNodeEnd"), consume_next_char(p.r))
                    [] p.c \in {"P", "B"} -> OrQName(get_base_or_prefix(p.r))
                    [] p.c \in {"t", "f"} -> OrQName(get_boolean_literal(p.r))
                    [] p.c = "a" -> OrQName(get_a_keyword(p.r))
                    [] p.c \in {"+", "-"} -> get_numeric(p.r)
                    [] p.c \in digit -> get_numeric(p.r)
                    [] p.c = NoneChar -> Ok(T0("EndOfInput"), p.r)
                    [] OTHER -> get_qname(p.r) :
                  p \in {peek_next_char_discard_leading_spaces(lx.input_reader)}}))

\* a peek that does not keep the token it read
Turtle_peek_next_token_uncached(lx) ==
    IF lx.peeked_token # NoneOpt
    THEN Ok(lx.peeked_token[1], lx)
    ELSE Turtle_get_next_token(lx)

Turtle_peek_next_token(lx) ==
    IF lx.peeked_token # NoneOpt
    THEN Ok(lx.peeked_token[1], lx)
    ELSE The({IF IsOk(n)
              THEN Ok(n.v, [n.r EXCEPT !.peeked_token = Some(n.v)])
              ELSE n :
              n \in {Turtle_get_next_token(lx)}})

----------------------------------------------------------------------------
(* Node, Triple (node.rs, triple.rs) *)

UriNode(uri) == [kind |-> "UriNode", uri |-> uri]
BlankNode(id) == [kind |-> "BlankNode", id |-> id]
LiteralNode(literal, data_type, language) ==
    [kind |-> "LiteralNode", literal |-> literal,
     data_type |-> data_type, language |-> language]

Triple_new(subject, predicate, object) ==
    [subject |-> subject, predicate |-> predicate, object |-> object]

----------------------------------------------------------------------------
(* Graph (graph.rs), NamespaceStore (namespace.rs), Uri (uri.rs) *)

Graph_new(base_uri) ==
    [base_uri |-> base_uri, triples |-> <<>>, namespaces |-> <<>>, next_id |-> 0]

\* set_base_uri starting the blank node ids again
set_base_uri_restarting(g, uri) ==
    [g EXCEPT !.base_uri = Some(uri), !.next_id = 0]

set_base_uri(g, uri) == [g EXCEPT !.base_uri = Some(uri)]

\* a store that keeps the URI a prefix was first added with
add_namespace_first(g, prefix, uri) ==
    [g EXCEPT !.namespaces = @ @@ (prefix :> uri)]

\* HashMap::insert: the value of an existing key is replaced
add_namespace(g, prefix, uri) ==
    [g EXCEPT !.namespaces = (prefix :> uri) @@ @]

get_namespace_uri_by_prefix(g, prefix) ==
    IF prefix \in DOMAIN g.namespaces
    THEN [err |-> "Ok", v |-> g.namespaces[prefix]]
    ELSE [err |-> "InvalidNamespace", v |-> <<>>]

\* add_triple putting the triple before the stored ones
add_triple_front(g, triple) == [g EXCEPT !.triples = <<triple>> \o @]

add_triple(g, triple) == [g EXCEPT !.triples = Append(@, triple)]

\* add_triples storing only the first of the triples
add_triples_first(g, triples) ==
    [g EXCEPT !.triples = @ \o SubSeq(triples, 1, 1)]

add_triples(g, triples) == [g EXCEPT !.triples = @ \o triples]


\* u64::to_string
DecimalDigit(k) == <<"0", "1", "2", "3", "4", "5", "6", "7", "8", "9">>[k + 1]

RECURSIVE ToDecimal(_)
ToDecimal(n) ==
    IF n < 10 THEN <<DecimalDigit(n)>>
    ELSE Append(ToDecimal(n \div 10), DecimalDigit(n % 10))

\* create_blank_node without the increment of next_id
create_blank_node_reused(g) ==
    [node |-> BlankNode(<<"a", "u", "t", "o">> \o ToDecimal(g.next_id)),
     g |-> g]

\* returns the node and the graph with the counter advanced
create_blank_node(g) ==
    [node |-> BlankNode(<<"a", "u", "t", "o">> \o ToDecimal(g.next_id)),
     g |-> [g EXCEPT !.next_id = @ + 1]]

\* str::replace of one character by another
replace_char(s, from, to) ==
    [i \in 1..Len(s) |-> IF s[i] = from THEN to ELSE s[i]]

append_resource_path(uri, path) == uri \o path

----------------------------------------------------------------------------
(* TurtleParser (reader/turtle_parser.rs).  The parser state st is          *)
(* [lexer, graph]; results carry it in r.                                   *)

ParserState(lx, g) == [lexer |-> lx, graph |-> g]

\* a lexer result as a parser result over the same graph
Lift(res, g) == [res EXCEPT !.r = ParserState(res.r, g)]

\* self.lexer.get_next_token() and self.lexer.peek_next_token() in a parser
next_token(st) == Lift(Turtle_get_next_token(st.lexer), st.graph)
peek_token(st) == Lift(Turtle_peek_next_token(st.lexer), st.graph)

\* the QName arm of read_subject, read_predicate_with_object, read_object
resolve_qname(st, token) ==
    The({IF u.err # "Ok" THEN Err(u.err, <<>>, st)
         ELSE Ok(UriNode(append_resource_path(u.v,
                             replace_char(token.b, ":", "/"))), st) :
         u \in {get_namespace_uri_by_prefix(st.graph, token.a)}})

RECURSIVE read_object(_)
RECURSIVE read_collection(_)
RECURSIVE read_collection_loop(_, _, _)
RECURSIVE read_unlabeled_blank_node(_)
RECURSIVE read_predicate_object_list(_, _)
RECURSIVE read_predicate_object_list_loop(_, _, _, _)
RECURSIVE read_predicate_with_object(_)

read_subject(st0) ==
    The({IF ~IsOk(t) THEN t
         ELSE CASE t.v.k = "BlankNode" -> Ok(BlankNode(t.v.a), t.r)
                [] t.v.k = "QName" -> resolve_qname(t.r, t.v)
                [] t.v.k = "Uri" -> Ok(UriNode(t.v.a), t.r)
                [] t.v.k = "CollectionStart" -> read_collection(t.r)
                [] t.v.k = "UnlabeledBlankNodeStart" ->
                     read_unlabeled_blank_node(t.r)
                [] OTHER -> Err("InvalidToken", <<>>, t.r) :
         t \in {next_token(st0)}})

read_object(st0) ==
    The({IF ~IsOk(t) THEN t
         ELSE CASE t.v.k = "BlankNode" -> Ok(BlankNode(t.v.a), t.r)
                [] t.v.k = "Uri" -> Ok(UriNode(t.v.a), t.r)
                [] t.v.k = "QName" -> resolve_qname(t.r, t.v)
                [] t.v.k = "LiteralWithLanguageSpecification" ->
                     Ok(LiteralNode(t.v.a, NoneOpt, Some(t.v.b)), t.r)
                [] t.v.k = "LiteralWithUrlDatatype" ->
                     Ok(LiteralNode(t.v.a, Some(t.v.b), NoneOpt), t.r)
                [] t.v.k = "Literal" ->
                     Ok(LiteralNode(t.v.a, NoneOpt, NoneOpt), t.r)
                [] t.v.k = "CollectionStart" -> read_collection(t.r)
                [] t.v.k = "UnlabeledBlankNodeStart" ->
                     read_unlabeled_blank_node(t.r)
                [] OTHER -> Err("InvalidToken", <<>>, t.r) :
         t \in {next_token(st0)}})

\* the predicate of read_predicate_with_object
read_predicate(st0) ==
    The({IF ~IsOk(t) THEN t
         ELSE CASE t.v.k = "Uri" -> Ok(UriNode(t.v.a), t.r)
                [] t.v.k = "KeywordA" -> Ok(UriNode(RdfSyntaxDataTypes_A), t.r)
                [] t.v.k = "QName" -> resolve_qname(t.r, t.v)
                [] t.v.k = "BlankNode" -> Ok(BlankNode(t.v.a), t.r)
                [] OTHER -> Err("InvalidToken", <<>>, t.r) :
         t \in {next_token(st0)}})

\* v is <<predicate, object>>
read_predicate_with_object(st0) ==
    The({IF ~IsOk(predicate) THEN predicate
         ELSE The({IF ~IsOk(object) THEN object
                   ELSE Ok(<<predicate.v, object.v>>, object.r) :
                   object \in {read_object(predicate.r)}}) :
         predicate \in {read_predicate(st0)}})

\* the loop of read_predicate_object_list: predicate is the predicate read
\* last, triples the triples collected so far
read_predicate_object_list_loop(subject, predicate, triples, st0) ==
    The({IF ~IsOk(t) THEN t
         ELSE CASE t.v.k = "TripleDelimiter" -> Ok(triples, t.r)
                [] t.v.k = "UnlabeledBlankNodeEnd" -> Ok(triples, t.r)
                [] t.v.k = "PredicateListDelimiter" ->
                     The({IF ~IsOk(po) THEN po
                          ELSE read_predicate_object_list_loop(subject, po.v[1],
                                   Append(triples,
                                          Triple_new(subject, po.v[1], po.v[2])),
                                   po.r) :
                          po \in {read_predicate_with_object(t.r)}})
                [] t.v.k = "ObjectListDelimiter" ->
                     The({IF ~IsOk(o) THEN o
                          ELSE read_predicate_object_list_loop(subject, predicate,
                                   Append(triples,
                                          Triple_new(subject, predicate, o.v)),
                                   o.r) :
                          o \in {read_object(t.r)}})
                [] OTHER -> Err("InvalidToken", <<>>, t.r) :
         t \in {next_token(st0)}})

read_predicate_object_list(subject, st0) ==
    The({IF ~IsOk(po) THEN po
         ELSE read_predicate_object_list_loop(subject, po.v[1],
                  <<Triple_new(subject, po.v[1], po.v[2])>>, po.r) :
         po \in {read_predicate_with_object(st0)}})

read_triples(st0) ==
    The({IF ~IsOk(subject) THEN subject
         ELSE read_predicate_object_list(subject.v, subject.r) :
         subject \in {read_subject(st0)}})

read_unlabeled_blank_node(st0) ==
    The({The({IF ~IsOk(p) THEN p
              ELSE IF p.v = T0("UnlabeledBlankNodeEnd")
                   THEN The({IF ~IsOk(t) THEN t ELSE Ok(b.node, t.r) :
                             t \in {next_token(p.r)}})
                   ELSE The({IF ~IsOk(l) THEN l
                             ELSE Ok(b.node,
                                     ParserState(l.r.lexer,
                                                 add_triples(l.r.graph, l.v))) :
                             l \in {read_predicate_object_list(b.node, p.r)}}) :
              p \in {peek_token(ParserState(st0.lexer, b.g))}}) :
         b \in {create_blank_node(st0.graph)}})

\* the triples of one element of a collection
ListFirst(node, object) ==
    Triple_new(node, UriNode(RdfSyntaxDataTypes_ListFirst), object)
\* ListRest closing the list at every cell
ListRest_nil(node, rest) ==
    Triple_new(node, UriNode(RdfSyntaxDataTypes_ListRest),
               UriNode(RdfSyntaxDataTypes_ListNil))

ListRest(node, rest) ==
    Triple_new(node, UriNode(RdfSyntaxDataTypes_ListRest), rest)

\* one iteration of read_collection's loop: subject is the first node of the
\* collection, next_subject the node of the element to read
read_collection_loop(subject, next_subject, st0) ==
    The({The({IF ~IsOk(object) THEN object
              ELSE The({IF ~IsOk(p) THEN p
                        ELSE IF p.v = T0("CollectionEnd")
                        THEN The({IF ~IsOk(t) THEN t
                                  ELSE Ok(subject,
                                          ParserState(t.r.lexer,
                                              add_triple(t.r.graph,
                                                  ListRest(next_subject,
                                                      UriNode(RdfSyntaxDataTypes_ListNil))))) :
                                  t \in {next_token(p.r)}})
                        ELSE read_collection_loop(subject, b.node,
                                 ParserState(p.r.lexer,
                                     add_triple(p.r.graph,
                                                ListRest(next_subject, b.node)))) :
                        p \in {peek_token(ParserState(object.r.lexer,
                                   add_triple(object.r.graph,
                                       ListFirst(next_subject, object.v))))}}) :
              object \in {read_object(ParserState(st0.lexer, b.g))}}) :
         b \in {create_blank_node(st0.graph)}})

read_collection(st0) ==
    The({IF ~IsOk(p) THEN p
         ELSE IF p.v = T0("CollectionEnd")
              THEN The({IF ~IsOk(t) THEN t
                        ELSE Ok(UriNode(RdfSyntaxDataTypes_ListNil), t.r) :
                        t \in {next_token(p.r)}})
              ELSE The({read_collection_loop(b.node, b.node,
                                             ParserState(p.r.lexer, b.g)) :
                        b \in {create_blank_node(p.r.graph)}}) :
         p \in {peek_token(st0)}})

\* v is the base URI
read_base_directive(lx) ==
    The({IF ~IsOk(t) THEN t
         ELSE IF t.v.k # "BaseDirective"
              THEN Err("InvalidReaderInput", <<>>, t.r)
              ELSE The({IF ~IsOk(d) THEN d
                        ELSE IF d.v.k = "TripleDelimiter" THEN Ok(t.v.a, d.r)
                        ELSE Err("InvalidReaderInput", <<>>, d.r) :
                        d \in {Turtle_get_next_token(t.r)}}) :
         t \in {Turtle_get_next_token(lx)}})

\* v is <<prefix, uri>>
read_prefix_directive(lx) ==
    The({IF ~IsOk(t) THEN t
         ELSE IF t.v.k # "PrefixDirective"
              THEN Err("InvalidReaderInput", <<>>, t.r)
              ELSE The({IF ~IsOk(d) THEN d
                        ELSE IF d.v.k = "TripleDelimiter"
                        THEN Ok(<<t.v.a, t.v.b>>, d.r)
                        ELSE Err("InvalidReaderInput", <<>>, d.r) :
                        d \in {Turtle_get_next_token(t.r)}}) :
         t \in {Turtle_get_next_token(lx)}})

----------------------------------------------------------------------------
(* NTriplesParser (reader/n_triples_parser.rs) *)

NTriples_read_subject(lx) ==
    The({CASE IsOk(t) /\ t.v.k = "BlankNode" -> Ok(BlankNode(t.v.a), t.r)
           [] IsOk(t) /\ t.v.k = "Uri" -> Ok(UriNode(t.v.a), t.r)
           [] OTHER -> Err("InvalidToken", <<>>, t.r) :
         t \in {NTriples_get_next_token(lx)}})

NTriples_read_predicate(lx) ==
    The({CASE IsOk(t) /\ t.v.k = "Uri" -> Ok(UriNode(t.v.a), t.r)
           [] OTHER -> Err("InvalidToken", <<>>, t.r) :
         t \in {NTriples_get_next_token(lx)}})

\* NTriples_read_object storing the language tag as data type as well
NTriples_read_object_both(lx) ==
    The({CASE IsOk(t) /\ t.v.k = "BlankNode" -> Ok(BlankNode(t.v.a), t.r)
           [] IsOk(t) /\ t.v.k = "Uri" -> Ok(UriNode(t.v.a), t.r)
           [] IsOk(t) /\ t.v.k = "LiteralWithLanguageSpecification" ->
                Ok(LiteralNode(t.v.a, Some(t.v.b), Some(t.v.b)), t.r)
           [] IsOk(t) /\ t.v.k = "LiteralWithUrlDatatype" ->
                Ok(LiteralNode(t.v.a, Some(t.v.b), NoneOpt), t.r)
           [] IsOk(t) /\ t.v.k = "Literal" ->
                Ok(LiteralNode(t.v.a, NoneOpt, NoneOpt), t.r)
           [] OTHER -> Err("InvalidToken", <<>>, t.r) :
         t \in {NTriples_get_next_token(lx)}})

NTriples_read_object(lx) ==
    The({CASE IsOk(t) /\ t.v.k = "BlankNode" -> Ok(BlankNode(t.v.a), t.r)
           [] IsOk(t) /\ t.v.k = "Uri" -> Ok(UriNode(t.v.a), t.r)
           [] IsOk(t) /\ t.v.k = "LiteralWithLanguageSpecification" ->
                Ok(LiteralNode(t.v.a, NoneOpt, Some(t.v.b)), t.r)
           [] IsOk(t) /\ t.v.k = "LiteralWithUrlDatatype" ->
                Ok(LiteralNode(t.v.a, Some(t.v.b), NoneOpt), t.r)
           [] IsOk(t) /\ t.v.k = "Literal" ->
                Ok(LiteralNode(t.v.a, NoneOpt, NoneOpt), t.r)
           [] OTHER -> Err("InvalidToken", <<>>, t.r) :
         t \in {NTriples_get_next_token(lx)}})

NTriples_read_triple(lx) ==
    The({IF ~IsOk(subject) THEN subject
         ELSE The({IF ~IsOk(predicate) THEN predicate
                   ELSE The({IF ~IsOk(object) THEN object
                             ELSE The({IF IsOk(d) /\ d.v.k = "TripleDelimiter"
                                       THEN Ok(Triple_new(subject.v, predicate.v,
                                                          object.v), d.r)
                                       ELSE Err("InvalidReaderInput", <<>>, d.r) :
                                       d \in {NTriples_get_next_token(object.r)}}) :
                             object \in {NTriples_read_object(predicate.r)}}) :
                   predicate \in {NTriples_read_predicate(subject.r)}}) :
         subject \in {NTriples_read_subject(lx)}})

----------------------------------------------------------------------------
(* Ord of String, Option, Uri, Node and Triple (derive(Ord) in uri.rs,      *)
(* node.rs and triple.rs): -1 is Less, 0 Equal, 1 Greater                   *)

\* printable ASCII characters in the order of their codes (a String is
\* ordered by its bytes)
Ascii ==
    <<" ", "!", "\"", "#", "$", "%", "&", "'", "(", ")", "*", "+", ",", "-",
      ".", "/", "0", "1", "2", "3", "4", "5", "6", "7", "8", "9", ":", ";",
      "<", "=", ">", "?", "@", "A", "B", "C", "D", "E", "F", "G", "H", "I",
      "J", "K", "L", "M", "N", "O", "P", "Q", "R", "S", "T", "U", "V", "W",
      "X", "Y", "Z", "[", "]", "^", "_", "a", "b", "c", "d", "e",
      "f", "g", "h", "i", "j", "k", "l", "m", "n", "o", "p", "q", "r", "s",
      "t", "u", "v", "w", "x", "y", "z", "{", "|", "}", "~">>

\* the rank of a character in that order
CharCode(c) == CHOOSE i \in 1..Len(Ascii) : Ascii[i] = c

\* Ordering::then
then_cmp(first, second) == IF first # 0 THEN first ELSE second

RECURSIVE str_cmp(_, _)
str_cmp(a, b) ==
    IF a = <<>> THEN (IF b = <<>> THEN 0 ELSE -1)
    ELSE IF b = <<>> THEN 1
    ELSE IF Head(a) = Head(b) THEN str_cmp(Tail(a), Tail(b))
    ELSE IF CharCode(Head(a)) < CharCode(Head(b)) THEN -1 ELSE 1

\* Option<String>, Option<Uri>: None is less than Some
opt_cmp(a, b) ==
    IF a = NoneOpt THEN (IF b = NoneOpt THEN 0 ELSE -1)
    ELSE IF b = NoneOpt THEN 1
    ELSE str_cmp(a[1], b[1])

\* the variants in the order of their declaration
NodeRank(n) ==
    CASE n.kind = "UriNode" -> 0
      [] n.kind = "LiteralNode" -> 1
      [] n.kind = "BlankNode" -> 2

Node_cmp(a, b) ==
    IF NodeRank(a) # NodeRank(b)
    THEN (IF NodeRank(a) < NodeRank(b) THEN -1 ELSE 1)
    ELSE CASE a.kind = "UriNode" -> str_cmp(a.uri, b.uri)
           [] a.kind = "BlankNode" -> str_cmp(a.id, b.id)
           [] a.kind = "LiteralNode" ->
                then_cmp(str_cmp(a.literal, b.literal),
                    then_cmp(opt_cmp(a.data_type, b.data_type),
                             opt_cmp(a.language, b.language)))

Triple_cmp(a, b) ==
    then_cmp(Node_cmp(a.subject, b.subject),
        then_cmp(Node_cmp(a.predicate, b.predicate),
                 Node_cmp(a.object, b.object)))

\* a writer that keeps the insertion order
sort_skipped(ts) == ts

\* Vec::sort: a stable sort
RECURSIVE sort_insert(_, _)
sort_insert(sorted, t) ==
    IF sorted = <<>> THEN <<t>>
    ELSE IF Triple_cmp(sorted[Len(sorted)], t) <= 0 THEN Append(sorted, t)
    ELSE Append(sort_insert(SubSeq(sorted, 1, Len(sorted) - 1), t),
                sorted[Len(sorted)])

RECURSIVE sort(_)
sort(ts) ==
    IF ts = <<>> THEN <<>>
    ELSE sort_insert(sort(SubSeq(ts, 1, Len(ts) - 1)), ts[Len(ts)])

----------------------------------------------------------------------------
(* TurtleSpecs::is_plain_literal (specs/turtle_specs.rs) and                 *)
(* RdfSyntaxSpecs::escape_literal (specs/rdf_syntax_specs.rs)                *)

is_plain_literal(literal, data_type) ==
    \/ is_double_literal(literal) /\ data_type = Some(XmlDataTypes_Decimal)
    \/ is_boolean_literal(literal) /\ data_type = Some(XmlDataTypes_Boolean)
    \/ /\ is_integer_literal(literal)
       /\ \/ data_type = Some(XmlDataTypes_Integer)
          \/ data_type = Some(XmlDataTypes_UnsignedLong)
          \/ data_type = Some(XmlDataTypes_Long)

\* the result of str::replace is dropped: the literal is returned unchanged
escape_literal(literal) == literal

----------------------------------------------------------------------------
(* TurtleFormatter (writer/formatter/turtle_formatter.rs).  namespaces is   *)
(* the HashMap of the formatter; order is the order in which its iterator   *)
(* yields the prefixes, which the HashMap leaves open.                      *)

starts_with(s, prefix) ==
    Len(prefix) <= Len(s) /\ SubSeq(s, 1, Len(prefix)) = prefix

\* str::replace: every non-overlapping occurrence, from the left
RECURSIVE replace(_, _, _)
replace(s, from, to) ==
    IF from = <<>> \/ s = <<>> THEN s
    ELSE IF starts_with(s, from)
         THEN to \o replace(SubSeq(s, Len(from) + 1, Len(s)), from, to)
         ELSE <<Head(s)>> \o replace(Tail(s), from, to)

format_blank(id) == <<"_", ":">> \o id

\* order is what is left of the iteration over the namespaces
RECURSIVE format_uri(_, _, _)
format_uri(namespaces, order, uri) ==
    IF order = <<>> THEN <<"<">> \o uri \o <<">">>
    ELSE IF starts_with(uri, namespaces[Head(order)])
         THEN Head(order) \o <<":">>
                \o replace(replace(uri, namespaces[Head(order)], <<>>),
                           <<"/">>, <<":">>)
         ELSE format_uri(namespaces, Tail(order), uri)

format_literal(namespaces, order, literal, data_type, language) ==
    (IF is_plain_literal(literal, data_type) /\ language = NoneOpt
     THEN literal
     ELSE <<"\"">> \o escape_literal(literal) \o <<"\"">>)
      \o (IF language # NoneOpt THEN <<"@">> \o language[1] ELSE <<>>)
      \o (IF data_type # NoneOpt
          THEN <<"^", "^">> \o format_uri(namespaces, order, data_type[1])
          ELSE <<>>)

format_node(namespaces, order, node) ==
    CASE node.kind = "BlankNode" -> format_blank(node.id)
      [] node.kind = "LiteralNode" ->
           format_literal(namespaces, order, node.literal, node.data_type,
                          node.language)
      [] node.kind = "UriNode" -> format_uri(namespaces, order, node.uri)

----------------------------------------------------------------------------
(* TurtleWriter (writer/turtle_writer.rs).  The writer is built over the    *)
(* namespaces of the graph it writes.  Results are [err, v]: v the text.    *)

repeat(c, n) == [i \in 1..n |-> c]

write_base_uri(g, order) ==
    IF g.base_uri # NoneOpt
    THEN <<"@", "b", "a", "s", "e", " ">>
           \o format_uri(g.namespaces, order, g.base_uri[1])
           \o <<" ", ".", "\n">>
    ELSE <<>>

\* order is what is left of the iteration over the namespaces
RECURSIVE write_prefixes(_, _)
write_prefixes(g, order) ==
    IF order = <<>> THEN <<>>
    ELSE <<"@", "p", "r", "e", "f", "i", "x", " ">> \o Head(order)
           \o <<":", " ", "<">> \o g.namespaces[Head(order)]
           \o <<">", " ", ".", "\n">>
           \o write_prefixes(g, Tail(order))

node_to_turtle(g, order, node, segment) ==
    CASE node.kind = "BlankNode" /\ segment = "Predicate" ->
           [err |-> "InvalidWriterOutput", v |-> <<>>]
      [] node.kind = "LiteralNode" /\ segment # "Object" ->
           [err |-> "InvalidWriterOutput", v |-> <<>>]
      [] node.kind = "LiteralNode" /\ node.language # NoneOpt
           /\ node.data_type # NoneOpt ->
           [err |-> "InvalidWriterOutput", v |-> <<>>]
      [] OTHER -> [err |-> "Ok", v |-> format_node(g.namespaces, order, node)]

\* the state of the loop over the sorted triples
WriterLoop(output_string, previous_subject, previous_predicate, predicate_indentation, object_indentation) ==
    [output_string |-> output_string,
     previous_subject |-> previous_subject,
     previous_predicate |-> previous_predicate,
     predicate_indentation |-> predicate_indentation,
     object_indentation |-> object_indentation]

\* the body of the loop up to the object: the subject and the predicate, or
\* what continues the group of the previous triple
write_group(g, order, w, triple) ==
    IF w.previous_subject = Some(triple.subject)
    THEN IF w.previous_predicate = Some(triple.predicate)
         THEN [err |-> "Ok",
               w |-> [w EXCEPT !.output_string =
                          @ \o <<" ", ",", "\n">>
                            \o repeat(" ", w.object_indentation)]]
         ELSE The({IF ~IsOk(turtle_predicate)
                   THEN [err |-> turtle_predicate.err, w |-> w]
                   ELSE [err |-> "Ok",
                         w |-> WriterLoop(
                                   w.output_string \o <<" ", ";", "\n">>
                                     \o repeat(" ", w.predicate_indentation)
                                     \o turtle_predicate.v \o <<" ">>,
                                   w.previous_subject,
                                   Some(triple.predicate),
                                   w.predicate_indentation,
                                   w.predicate_indentation
                                     + Len(turtle_predicate.v) + 1)] :
                   turtle_predicate \in
                       {node_to_turtle(g, order, triple.predicate, "Predicate")}})
    ELSE The({IF ~IsOk(turtle_subject)
              THEN [err |-> turtle_subject.err, w |-> w]
              ELSE The({IF ~IsOk(turtle_predicate)
                        THEN [err |-> turtle_predicate.err, w |-> w]
                        ELSE [err |-> "Ok",
                              w |-> WriterLoop(
                                        w.output_string
                                          \o (IF w.previous_subject # NoneOpt
                                              THEN <<" ", ".", "\n">> ELSE <<>>)
                                          \o turtle_subject.v \o <<" ">>
                                          \o turtle_predicate.v \o <<" ">>,
                                        Some(triple.subject),
                                        Some(triple.predicate),
                                        Len(turtle_subject.v) + 1,
                                        Len(turtle_subject.v) + 1
                                          + Len(turtle_predicate.v) + 1)] :
                        turtle_predicate \in
                            {node_to_turtle(g, order, triple.predicate, "Predicate")}}) :
              turtle_subject \in
                  {node_to_turtle(g, order, triple.subject, "Subject")}})

\* the loop over the sorted triples: triples_vec is what is left of them
RECURSIVE write_triples(_, _, _, _)
write_triples(g, order, triples_vec, w) ==
    IF triples_vec = <<>> THEN [err |-> "Ok", w |-> w]
    ELSE The({IF ~IsOk(grouped) THEN grouped
              ELSE The({IF ~IsOk(turtle_object)
                        THEN [err |-> turtle_object.err, w |-> grouped.w]
                        ELSE write_triples(g, order, Tail(triples_vec),
                                 [grouped.w EXCEPT !.output_string =
                                                       @ \o turtle_object.v]) :
                        turtle_object \in
                            {node_to_turtle(g, order, Head(triples_vec).object,
                                            "Object")}}) :
              grouped \in {write_group(g, order, w, Head(triples_vec))}})

write_to_string(g, order) ==
    The({IF ~IsOk(written) THEN [err |-> written.err, v |-> <<>>]
         ELSE [err |-> "Ok",
               v |-> written.w.output_string
                       \o (IF g.triples # <<>> THEN <<" ", ".">> ELSE <<>>)] :
         written \in
             {write_triples(g, order, sort(g.triples),
                  WriterLoop(write_base_uri(g, order) \o write_prefixes(g, order),
                             NoneOpt, NoneOpt, 0, 0))}})


----------------------------------------------------------------------------
(* NTriplesFormatter (writer/formatter/n_triples_formatter.rs) and          *)
(* NTriplesWriter (writer/n_triples_writer.rs).  Results are [err, v].      *)

NTriples_format_uri(uri) == <<"<">> \o uri \o <<">">>

NTriples_format_literal(literal, data_type, language) ==
    <<"\"">> \o escape_literal(literal) \o <<"\"">>
      \o (IF language # NoneOpt THEN <<"@">> \o language[1] ELSE <<>>)
      \o (IF data_type # NoneOpt
          THEN <<"^", "^">> \o NTriples_format_uri(data_type[1])
          ELSE <<>>)

NTriples_format_node(node) ==
    CASE node.kind = "BlankNode" -> format_blank(node.id)
      [] node.kind = "LiteralNode" ->
           NTriples_format_literal(node.literal, node.data_type, node.language)
      [] node.kind = "UriNode" -> NTriples_format_uri(node.uri)

\* a writer that checks the position of a literal only
node_to_n_triples_lenient(node, segment) ==
    CASE node.kind = "LiteralNode" /\ segment # "Object" ->
           [err |-> "InvalidWriterOutput", v |-> <<>>]
      [] OTHER -> [err |-> "Ok", v |-> NTriples_format_node(node)]

node_to_n_triples(node, segment) ==
    CASE node.kind = "BlankNode" /\ segment = "Predicate" ->
           [err |-> "InvalidWriterOutput", v |-> <<>>]
      [] node.kind = "LiteralNode" /\ segment # "Object" ->
           [err |-> "InvalidWriterOutput", v |-> <<>>]
      [] node.kind = "LiteralNode" /\ node.language # NoneOpt
           /\ node.data_type # NoneOpt ->
           [err |-> "InvalidWriterOutput", v |-> <<>>]
      [] OTHER -> [err |-> "Ok", v |-> NTriples_format_node(node)]

triple_to_n_triples(triple) ==
    The({IF ~IsOk(s) THEN s
         ELSE The({IF ~IsOk(p) THEN p
                   ELSE The({IF ~IsOk(o) THEN o
                             ELSE [err |-> "Ok",
                                   v |-> s.v \o <<" ">> \o p.v \o <<" ">>
                                           \o o.v \o <<" ", ".">>] :
                             o \in {node_to_n_triples(triple.object, "Object")}}) :
                   p \in {node_to_n_triples(triple.predicate, "Predicate")}}) :
         s \in {node_to_n_triples(triple.subject, "Subject")}})

\* for triple in graph.triples_iter()
RECURSIVE NTriples_write_loop(_, _)
NTriples_write_loop(triples, output_string) ==
    IF triples = <<>> THEN [err |-> "Ok", v |-> output_string]
    ELSE The({IF ~IsOk(str) THEN str
              ELSE NTriples_write_loop(Tail(triples),
                                       output_string \o str.v \o <<"\n">>) :
              str \in {triple_to_n_triples(Head(triples))}})

NTriples_write_to_string(g) == NTriples_write_loop(g.triples, <<>>)
----------------------------------------------------------------------------
(* TurtleParser::decode (reader/turtle_parser.rs): one action per arm of    *)
(* the match on peek_next_token inside the loop.  result stays "running"    *)
(* while the loop runs and becomes "Ok" or the kind of the returned error.  *)

\* the parser runs on a document, or on the text the writer has written
TurtleRunning == mode \in {"turtle", "roundtrip"} /\ result = "running"

\* Ok(Token::Comment(_)) => { let _ = self.lexer.get_next_token(); continue }
DecodeComment ==
    /\ TurtleRunning
    /\ \E p \in {Turtle_peek_next_token(lexer)} :
           /\ IsOk(p) /\ p.v.k = "Comment"
           /\ lexer' = Turtle_get_next_token(p.r).r
    /\ UNCHANGED <<doc, mode, graph, result>>

\* Ok(Token::EndOfInput) => return Ok(graph)
DecodeEndOfInput ==
    /\ TurtleRunning
    /\ \E p \in {Turtle_peek_next_token(lexer)} :
           /\ IsOk(p) /\ p.v.k = "EndOfInput"
           /\ lexer' = p.r
    /\ result' = "Ok"
    /\ UNCHANGED <<doc, mode, graph>>

\* Ok(Token::BaseDirective(_)) => graph.set_base_uri(read_base_directive()?)
DecodeBaseDirective ==
    /\ TurtleRunning
    /\ \E p \in {Turtle_peek_next_token(lexer)} :
           /\ IsOk(p) /\ p.v.k = "BaseDirective"
           /\ \E b \in {read_base_directive(p.r)} :
                  /\ lexer' = b.r
                  /\ IF IsOk(b)
                     THEN graph' = set_base_uri(graph, b.v) /\ result' = result
                     ELSE graph' = graph /\ result' = b.err
    /\ UNCHANGED <<doc, mode>>

\* Ok(Token::PrefixDirective(_, _)) => graph.add_namespace(read_prefix_directive()?)
DecodePrefixDirective ==
    /\ TurtleRunning
    /\ \E p \in {Turtle_peek_next_token(lexer)} :
           /\ IsOk(p) /\ p.v.k = "PrefixDirective"
           /\ \E n \in {read_prefix_directive(p.r)} :
                  /\ lexer' = n.r
                  /\ IF IsOk(n)
                     THEN /\ graph' = add_namespace(graph, n.v[1], n.v[2])
                          /\ result' = result
                     ELSE graph' = graph /\ result' = n.err
    /\ UNCHANGED <<doc, mode>>

\* Ok(Uri | BlankNode | QName | CollectionStart | UnlabeledBlankNodeStart) =>
\*     graph.add_triples(read_triples(&mut graph)?)
DecodeTriples ==
    /\ TurtleRunning
    /\ \E p \in {Turtle_peek_next_token(lexer)} :
           /\ IsOk(p)
           /\ p.v.k \in {"Uri", "BlankNode", "QName", "CollectionStart",
                         "UnlabeledBlankNodeStart"}
           /\ \E t \in {read_triples(ParserState(p.r, graph))} :
                  /\ lexer' = t.r.lexer
                  /\ IF IsOk(t)
                     THEN /\ graph' = add_triples(t.r.graph, t.v)
                          /\ result' = result
                     ELSE graph' = t.r.graph /\ result' = t.err
    /\ UNCHANGED <<doc, mode>>

\* Err(err) => EndOfInput: return Ok(graph); otherwise InvalidReaderInput
DecodeLexerError ==
    /\ TurtleRunning
    /\ \E p \in {Turtle_peek_next_token(lexer)} :
           /\ ~IsOk(p)
           /\ lexer' = p.r
           /\ result' = IF p.err = "EndOfInput" THEN "Ok"
                        ELSE "InvalidReaderInput"
    /\ UNCHANGED <<doc, mode, graph>>

\* Ok(_) => Err(InvalidToken)
DecodeInvalidToken ==
    /\ TurtleRunning
    /\ \E p \in {Turtle_peek_next_token(lexer)} :
           /\ IsOk(p)
           /\ p.v.k \notin {"Comment", "EndOfInput", "BaseDirective",
                            "PrefixDirective", "Uri", "BlankNode", "QName",
                            "CollectionStart", "UnlabeledBlankNodeStart"}
           /\ lexer' = p.r
    /\ result' = "InvalidToken"
    /\ UNCHANGED <<doc, mode, graph>>

----------------------------------------------------------------------------
(* NTriplesParser::decode (reader/n_triples_parser.rs) *)

NTriplesRunning == mode = "ntriples" /\ result = "running"

\* try!(self.lexer.peek_next_token()): a lexer error is returned as it is
NTriplesDecodePeekError ==
    /\ NTriplesRunning
    /\ \E p \in {NTriples_peek_next_token(lexer)} :
           /\ ~IsOk(p)
           /\ lexer' = p.r
           /\ result' = p.err
    /\ UNCHANGED <<doc, mode, graph>>

\* Token::Comment(_) => { let _ = self.lexer.get_next_token(); continue }
NTriplesDecodeComment ==
    /\ NTriplesRunning
    /\ \E p \in {NTriples_peek_next_token(lexer)} :
           /\ IsOk(p) /\ p.v.k = "Comment"
           /\ lexer' = NTriples_get_next_token(p.r).r
    /\ UNCHANGED <<doc, mode, graph, result>>

\* Token::EndOfInput => return Ok(graph)
NTriplesDecodeEndOfInput ==
    /\ NTriplesRunning
    /\ \E p \in {NTriples_peek_next_token(lexer)} :
           /\ IsOk(p) /\ p.v.k = "EndOfInput"
           /\ lexer' = p.r
    /\ result' = "Ok"
    /\ UNCHANGED <<doc, mode, graph>>

\* match self.read_triple(): Ok(triple) => graph.add_triple(&triple);
\* Err => EndOfInput: return Ok(graph); otherwise InvalidReaderInput
NTriplesDecodeTriple ==
    /\ NTriplesRunning
    /\ \E p \in {NTriples_peek_next_token(lexer)} :
           /\ IsOk(p) /\ p.v.k \notin {"Comment", "EndOfInput"}
           /\ \E t \in {NTriples_read_triple(p.r)} :
                  /\ lexer' = t.r
                  /\ IF IsOk(t)
                     THEN graph' = add_triple(graph, t.v) /\ result' = result
                     ELSE /\ graph' = graph
                          /\ result' = IF t.err = "EndOfInput" THEN "Ok"
                                       ELSE "InvalidReaderInput"
    /\ UNCHANGED <<doc, mode>>

----------------------------------------------------------------------------
(* TurtleWriter::write_to_string, followed by TurtleParser::new on the      *)
(* written text.  doc.graph is the graph written; result is "writing"       *)
(* before the call and the error kind when the writer refuses the graph.    *)

\* the orders in which a HashMap with these keys may be iterated
Orders(namespaces) ==
    {o \in [1..Cardinality(DOMAIN namespaces) -> DOMAIN namespaces] :
        \A i, j \in DOMAIN o : i # j => o[i] # o[j]}

WriteToString ==
    /\ mode = "roundtrip" /\ result = "writing"
    /\ \E order \in Orders(doc.graph.namespaces) :
           \E w \in {write_to_string(doc.graph, order)} :
               IF IsOk(w)
               THEN lexer' = Lexer_new(w.v) /\ result' = "running"
               ELSE lexer' = lexer /\ result' = w.err
    /\ UNCHANGED <<doc, mode, graph>>

----------------------------------------------------------------------------
(* Input documents.  A document is a syntax tree; Render writes it out as   *)
(* the character sequence the parsers read.  Terms are separated by one     *)
(* space, statements and directives by one line break.                      *)

MaxStmts == 2        \* statements of a document of simple statements
MaxPredicates == 2   \* predicates of a compressed statement
MaxObjects == 2      \* objects per predicate of a compressed statement
MaxElems == 3        \* elements of a collection
MaxItems == 3        \* directives and statements of a document with QNames

DUri(v) == [t |-> "uri", v |-> v]
DBlank(v) == [t |-> "blank", v |-> v]
DLiteral(v, dt, lang) == [t |-> "literal", v |-> v, dt |-> dt, lang |-> lang]
DQName(p, l) == [t |-> "qname", p |-> p, l |-> l]
DKeywordA == [t |-> "a"]
DCollection(elems) == [t |-> "collection", elems |-> elems]
DAnon(pol) == [t |-> "anon", pol |-> pol]

\* one predicate with its objects
DPredicate(p, objs) == [p |-> p, objs |-> objs]
DStatement(s, pol) == [i |-> "statement", s |-> s, pol |-> pol]
DPrefix(name, uri) == [i |-> "prefix", name |-> name, uri |-> uri]
DBase(uri) == [i |-> "base", uri |-> uri]
DComment(text) == [i |-> "comment", text |-> text]
DStray(text) == [i |-> "stray", text |-> text]

\* cut = 0: the whole text; cut = k > 0: the text without its last k characters
Document(family, items, tail, cut) ==
    [family |-> family, items |-> items, tail |-> tail, cut |-> cut]

SeqsUpTo(S, lo, hi) == UNION {[1..k -> S] : k \in lo..hi}

RECURSIVE RenderTerm(_)
RECURSIVE RenderTerms(_, _)
RECURSIVE RenderPol(_)

\* the terms of ts, each followed by sep except the last
RenderTerms(ts, sep) ==
    IF ts = <<>> THEN <<>>
    ELSE IF Len(ts) = 1 THEN RenderTerm(ts[1])
    ELSE RenderTerm(ts[1]) \o sep \o RenderTerms(Tail(ts), sep)

RenderPol(pol) ==
    RenderTerm(pol[1].p) \o <<" ">> \o RenderTerms(pol[1].objs, <<" ", ",", " ">>)
      \o (IF Len(pol) = 1 THEN <<>>
          ELSE <<" ", ";", " ">> \o RenderPol(Tail(pol)))

RenderTerm(t) ==
    CASE t.t = "uri" -> <<"<">> \o t.v \o <<">">>
      [] t.t = "blank" -> <<"_", ":">> \o t.v
      [] t.t = "literal" ->
           <<"\"">> \o t.v \o <<"\"">>
             \o (IF t.lang # NoneOpt THEN <<"@">> \o t.lang[1]
                 ELSE IF t.dt # NoneOpt
                      THEN <<"^", "^", "<">> \o t.dt[1] \o <<">">>
                      ELSE <<>>)
      [] t.t = "qname" -> t.p \o <<":">> \o t.l
      [] t.t = "a" -> <<"a">>
      [] t.t = "collection" ->
           IF t.elems = <<>> THEN <<"(", " ", ")">>
           ELSE <<"(", " ">> \o RenderTerms(t.elems, <<" ">>) \o <<" ", ")">>
      [] t.t = "anon" ->
           IF t.pol = <<>> THEN <<"[", " ", "]">>
           ELSE <<"[", " ">> \o RenderPol(t.pol) \o <<" ", "]">>

RenderItem(it) ==
    CASE it.i = "statement" ->
           RenderTerm(it.s) \o <<" ">> \o RenderPol(it.pol) \o <<" ", ".">>
      [] it.i = "prefix" ->
           <<"@", "p", "r", "e", "f", "i", "x", " ">> \o it.name
             \o <<":", " ", "<">> \o it.uri \o <<">", " ", ".">>
      [] it.i = "base" ->
           <<"@", "b", "a", "s", "e", " ", "<">> \o it.uri \o <<">", " ", ".">>
      [] it.i = "comment" -> <<"#", " ">> \o it.text
      [] it.i = "stray" -> it.text

RECURSIVE RenderItems(_)
RenderItems(items) ==
    IF items = <<>> THEN <<>>
    ELSE IF Len(items) = 1 THEN RenderItem(items[1])
    ELSE RenderItem(items[1]) \o <<"\n">> \o RenderItems(Tail(items))

Render(d) ==
    SubSeq(RenderItems(d.items) \o d.tail, 1,
           Len(RenderItems(d.items) \o d.tail) - d.cut)

----------------------------------------------------------------------------
(* The documents the parsers are started on, one family per kind of input.  *)

MaxNested == 2       \* elements of a collection nested in a collection

UriA == DUri(<<"a">>)
UriC == DUri(<<"c">>)
UriP == DUri(<<"p">>)
UriQ == DUri(<<"q">>)
UriR == DUri(<<"r">>)
BlankB == DBlank(<<"b">>)
BlankD == DBlank(<<"d">>)
LiteralX == DLiteral(<<"x">>, NoneOpt, NoneOpt)
LiteralXEn == DLiteral(<<"x", " ", "y">>, NoneOpt, Some(<<"e", "n">>))
LiteralXT == DLiteral(<<"x">>, Some(<<"t">>), NoneOpt)

SimpleSubjects == {UriA, BlankB}
SimpleObjects == {UriC, BlankD, LiteralX, LiteralXEn, LiteralXT}

\* a statement S P O .
Simple(s, p, o) == DStatement(s, <<DPredicate(p, <<o>>)>>)

SimpleStatements == {Simple(s, UriP, o) : s \in SimpleSubjects, o \in SimpleObjects}

SimpleDocuments ==
    {Document("simple", items, <<>>, 0) :
        items \in SeqsUpTo(SimpleStatements, 0, MaxStmts)}

\* the k-th predicate of a compressed statement: <p1>, <p2>, ...
PredicateNo(k) == DUri(<<"p">> \o ToDecimal(k))

ObjectLists == SeqsUpTo({UriC, LiteralXEn}, 1, MaxObjects)

PredicateObjectLists ==
    UNION {{[k \in 1..n |-> DPredicate(PredicateNo(k), ol[k])] :
              ol \in [1..n -> ObjectLists]} : n \in 1..MaxPredicates}

CompressedDocuments ==
    {Document("compressed", <<DStatement(s, pol)>>, <<>>, 0) :
        s \in SimpleSubjects, pol \in PredicateObjectLists}

InnerCollections == {DCollection(e) : e \in SeqsUpTo({UriC}, 0, MaxNested)}

Collections ==
    {DCollection(e) :
        e \in SeqsUpTo({UriC, BlankD, LiteralX} \cup InnerCollections, 0, MaxElems)}

CollectionDocuments ==
    {Document("collection", <<Simple(UriA, UriP, c)>>, <<>>, 0) : c \in Collections}
    \cup {Document("collection", <<Simple(c, UriP, UriC)>>, <<>>, 0) : c \in Collections}

AnonSimpleBodies ==
    { <<>>,
      <<DPredicate(UriQ, <<UriC>>)>>,
      <<DPredicate(UriQ, <<UriC, LiteralX>>)>>,
      <<DPredicate(UriQ, <<UriC>>), DPredicate(UriR, <<BlankD>>)>> }

InnerAnons == {DAnon(b) : b \in AnonSimpleBodies}

AnonBodies ==
    AnonSimpleBodies
    \cup {<<DPredicate(UriQ, <<n>>)>> : n \in InnerAnons}
    \cup {<<DPredicate(UriQ, <<UriC, n>>)>> : n \in InnerAnons}
    \cup {<<DPredicate(UriQ, <<n>>), DPredicate(UriR, <<m>>)>> :
             n \in InnerAnons, m \in InnerAnons}
    \cup {<<DPredicate(UriQ, <<DAnon(<<DPredicate(UriR, <<n>>)>>)>>)>> :
             n \in InnerAnons}

Anons == {DAnon(b) : b \in AnonBodies}

AnonDocuments ==
    {Document("anon", <<Simple(n, UriP, UriC)>>, <<>>, 0) : n \in Anons}
    \cup {Document("anon", <<Simple(UriA, UriP, n)>>, <<>>, 0) : n \in Anons}
    \cup {Document("anon", <<Simple(n, UriP, m)>>, <<>>, 0) :
             n \in InnerAnons, m \in InnerAnons}
    \cup {Document("anon", <<DStatement(UriA, <<DPredicate(UriP, <<n, m>>)>>)>>,
                   <<>>, 0) : n \in InnerAnons, m \in InnerAnons}

\* statements whose predicate is the keyword a
KeywordStatements ==
    {Simple(s, DKeywordA, o) : s \in SimpleSubjects, o \in {UriC, BlankD, LiteralX}}
    \cup {DStatement(s, <<DPredicate(DKeywordA, <<UriC>>), DPredicate(UriP, <<o>>)>>) :
             s \in SimpleSubjects, o \in {UriC, LiteralX}}

KeywordDocuments ==
    {Document("keyword", <<k>>, <<>>, 0) : k \in KeywordStatements}
    \cup {Document("keyword", <<Simple(UriA, UriP, UriC), k>>, <<>>, 0) :
             k \in KeywordStatements}

\* directives and statements over one prefix name n
QNameItems(n) ==
    { DPrefix(n, <<"u", "1">>), DPrefix(n, <<"u", "2">>),
      Simple(DQName(n, <<"x">>), UriP, UriC),
      Simple(UriA, DQName(n, <<"x">>), UriC),
      Simple(UriA, UriP, DQName(n, <<"x", ":", "y">>)),
      Simple(DQName(n, <<"x">>), DQName(n, <<"x">>), DQName(n, <<"x">>)) }

QNameDocuments ==
    UNION {{Document("qname", items, <<>>, 0) :
              items \in SeqsUpTo(QNameItems(n), 1, MaxItems)} :
           n \in {<<"p">>, <<"P">>}}

NTriplesBoundaryItems == {Simple(UriA, UriP, UriC), Simple(BlankB, UriP, LiteralXEn)}

BoundaryItems ==
    NTriplesBoundaryItems
    \cup { DStatement(BlankB, <<DPredicate(UriP, <<LiteralXEn>>),
                                DPredicate(UriQ, <<UriC, BlankD>>)>>),
           DPrefix(<<"p">>, <<"u", "1">>),
           DBase(<<"u", "1">>),
           DComment(<<"c">>) }

\* what may follow the last statement: nothing, whitespace, comments
Tails ==
    { <<>>, <<" ">>, <<"\n">>, <<"\t">>, <<" ", "#", " ", "c">>,
      <<"\n", "#", "c", "\n">>, <<"#">> }

BoundaryDocuments ==
    {Document("boundary", items, tail, 0) :
        items \in SeqsUpTo(BoundaryItems, 0, MaxStmts), tail \in Tails}

NTriplesTruncated == {Simple(UriA, UriP, LiteralXEn), Simple(BlankB, UriP, UriC)}

TruncatedStatements ==
    NTriplesTruncated
    \cup { DStatement(UriA, <<DPredicate(UriP, <<LiteralXEn>>),
                              DPredicate(UriQ, <<DCollection(<<UriC>>),
                                                 DAnon(<<DPredicate(UriR, <<BlankD>>)>>)>>)>>) }

\* a statement cut short, alone or after a complete statement
TruncatedDocuments ==
    UNION {{Document("truncated", before \o <<last>>, <<>>, cut) :
              cut \in 1..(Len(RenderItem(last)) - 1),
              before \in {<<>>, <<Simple(UriA, UriP, UriC)>>}} :
           last \in TruncatedStatements}

\* a token that cannot start a statement, before a statement
StrayDocuments ==
    {Document("stray", <<DStray(t), Simple(UriA, UriP, UriC)>>, <<>>, 0) :
        t \in {<<".">>, <<";">>, <<",">>, <<")">>, <<"]">>, <<"\"", "x", "\"">>,
               <<"@", "x">>}}

\* a statement with a token its position does not allow: a literal as
\* subject or predicate, a URI where the delimiter is expected
MisplacedStatements ==
    {Simple(LiteralX, UriP, UriC), Simple(LiteralXEn, UriP, BlankD),
     Simple(UriA, LiteralX, UriC), Simple(BlankD, LiteralXT, LiteralX),
     DStray(<<"<", "a", ">", " ", "<", "p", ">", " ", "<", "c", ">", " ",
              "<", "d", ">", " ", ".">>)}

MisplacedDocuments ==
    {Document("misplaced", before \o <<st>>, <<>>, 0) :
        before \in {<<>>, <<Simple(UriA, UriP, UriC)>>},
        st \in MisplacedStatements}

\* Turtle statements with punctuation where a predicate or an object is
\* expected
PunctuationStatements ==
    {<<"<", "a", ">", " ", "<", "p", ">", " ">> \o t \o <<" ", "<", "c", ">", " ", ".">> :
        t \in {<<";">>, <<",">>, <<")">>, <<"]">>, <<".">>}}
    \cup {<<"<", "a", ">", " ">> \o t \o <<" ", "<", "c", ">", " ", ".">> :
            t \in {<<";">>, <<",">>, <<")">>, <<"(", " ", ")">>}}

PunctuationDocuments ==
    {Document("punctuation", before \o <<DStray(t)>>, <<>>, 0) :
        before \in {<<>>, <<Simple(UriA, UriP, UriC)>>},
        t \in PunctuationStatements}

\* a top-level statement <a> <p> <c> followed by a token that is not '.',
\* ';' or ','
TerminatorTokens ==
    {<<"]">>, <<")">>, <<"<", "d", ">">>, <<"\"", "x", "\"">>, <<"(">>, <<"[">>, <<"_", ":", "b">>}

TerminatorDocuments ==
    {Document("terminator",
              <<DStray(<<"<", "a", ">", " ", "<", "p", ">", " ", "<", "c", ">", " ">> \o t)>> \o after, <<>>, 0) :
        t \in TerminatorTokens,
        after \in {<<>>, <<Simple(UriA, UriQ, UriC)>>}}

\* blank nodes labelled as create_blank_node names its nodes, next to
\* anonymous nodes and collections
AutoLabels == {<<"a", "u", "t", "o", "0">>, <<"a", "u", "t", "o", "1">>,
               <<"a", "u", "t", "o">>, <<"b">>}
AutoMinting ==
    {DAnon(<<>>), DAnon(<<DPredicate(UriQ, <<UriC>>)>>),
     DCollection(<<UriC>>), DCollection(<<UriC, UriA>>)}

AutoLabelDocuments ==
    {Document("autolabel", <<Simple(DBlank(l), UriP, n)>>, <<>>, 0) :
        l \in AutoLabels, n \in AutoMinting}
    \cup {Document("autolabel", <<Simple(n, UriP, DBlank(l))>>, <<>>, 0) :
             l \in AutoLabels, n \in AutoMinting}

\* statements whose object is a literal in triple quotes: q is the quote
\* character, body what is written between the delimiters, and closed tells
\* whether the closing delimiter and the '.' are written
LongLiteralBodies ==
    {<<"x">>, <<"x", "\n", "y">>,
     <<"x", "Q", "y">>, <<"x", "Q", "Q", "y">>, <<"Q", "x">>, <<"x", "Q", "y", "Q", "z">>}

LongLiteralText(q, body, closed) ==
    <<"<", "a", ">", " ", "<", "p", ">", " ">> \o <<q, q, q>>
      \o [i \in 1..Len(body) |-> IF body[i] = "Q" THEN q ELSE body[i]]
      \o (IF closed THEN <<q, q, q, " ", ".">> ELSE <<>>)

LongLiteralDocuments ==
    {[family |-> "longliteral", items |-> <<DStray(LongLiteralText(q, b, c))>>,
      tail |-> <<>>, cut |-> 0, q |-> q, body |-> b, closed |-> c] :
        q \in {"\"", "'"}, b \in LongLiteralBodies, c \in BOOLEAN}

\* the graphs handed to the writer: no, one or two triples
GraphSubjects == {UriNode(<<"a">>), UriNode(<<"u", "/", "s">>), BlankNode(<<"b">>)}
GraphPredicates == {UriNode(<<"p">>), UriNode(<<"u", "/", "q">>), BlankNode(<<"b">>)}
GraphObjects ==
    {UriNode(<<"c">>), BlankNode(<<"d">>),
     LiteralNode(<<"x">>, NoneOpt, NoneOpt),
     LiteralNode(<<"x", " ", "y">>, NoneOpt, Some(<<"e", "n">>)),
     LiteralNode(<<"x">>, Some(<<"t">>), NoneOpt),
     LiteralNode(<<"5">>, Some(XmlDataTypes_Integer), NoneOpt),
     LiteralNode(<<"x", "\"", "y">>, NoneOpt, NoneOpt),
     LiteralNode(<<"x">>, Some(<<"t">>), Some(<<"e", "n">>))}

GraphTriples ==
    {Triple_new(s, p, o) : s \in GraphSubjects, p \in GraphPredicates,
                           o \in GraphObjects}

\* the triples of the graphs of two triples
GraphPairTriples ==
    {Triple_new(s, p, o) :
        s \in {UriNode(<<"a">>), BlankNode(<<"b">>)},
        p \in {UriNode(<<"p">>), UriNode(<<"u", "/", "q">>)},
        o \in {UriNode(<<"c">>), LiteralNode(<<"x">>, NoneOpt, NoneOpt)}}

GraphNamespaces ==
    {<<>>,
     <<"e">> :> <<"u", "/">>,
     (<<"e">> :> <<"u", "/">>) @@ (<<"f">> :> <<"u">>)}

GraphDocuments ==
    {[family |-> "graph",
      graph |-> [base_uri |-> b, triples |-> ts, namespaces |-> ns, next_id |-> 0]] :
        b \in {NoneOpt, Some(<<"c">>)},
        ns \in GraphNamespaces,
        ts \in {<<>>} \cup {<<t>> : t \in GraphTriples}
               \cup {<<t1, t2>> : t1 \in GraphPairTriples, t2 \in GraphPairTriples}}

Documents ==
    SimpleDocuments \cup CompressedDocuments \cup CollectionDocuments
    \cup AnonDocuments \cup KeywordDocuments \cup QNameDocuments
    \cup BoundaryDocuments \cup TruncatedDocuments \cup StrayDocuments
    \cup MisplacedDocuments \cup PunctuationDocuments \cup TerminatorDocuments
    \cup AutoLabelDocuments \cup LongLiteralDocuments \cup GraphDocuments

\* the documents that are N-Triples documents as well
NTriplesItem(it) ==
    \/ it.i \in {"comment", "stray"}
    \/ /\ it.i = "statement"
       /\ it.s.t \in {"uri", "blank"}
       /\ Len(it.pol) = 1
       /\ it.pol[1].p.t = "uri"
       /\ Len(it.pol[1].objs) = 1
       /\ it.pol[1].objs[1].t \in {"uri", "blank", "literal"}

Modes(d) ==
    IF d.family = "graph" THEN {"roundtrip"}
    ELSE IF d.family = "misplaced" THEN {"turtle", "ntriples"}
    ELSE IF d.family \in {"simple", "boundary", "truncated", "stray"}
       /\ \A k \in 1..Len(d.items) : NTriplesItem(d.items[k])
    THEN {"turtle", "ntriples"}
    ELSE {"turtle"}

----------------------------------------------------------------------------
Init ==
    /\ doc \in Documents
    /\ mode \in Modes(doc)
    /\ lexer = Lexer_new(IF mode = "roundtrip" THEN <<>> ELSE Render(doc))
    /\ graph = Graph_new(NoneOpt)
    /\ result = IF mode = "roundtrip" THEN "writing" ELSE "running"

Next ==
    \/ DecodeComment
    \/ DecodeEndOfInput
    \/ DecodeBaseDirective
    \/ DecodePrefixDirective
    \/ DecodeTriples
    \/ DecodeLexerError
    \/ DecodeInvalidToken
    \/ NTriplesDecodePeekError
    \/ NTriplesDecodeComment
    \/ NTriplesDecodeEndOfInput
    \/ NTriplesDecodeTriple
    \/ WriteToString

Spec == Init /\ [][Next]_vars


----------------------------------------------------------------------------
(* The writers alone: NTriplesWriter::write_to_string and                   *)
(* TurtleWriter::write_to_string over graphs that hold any node in any      *)
(* position, stored in any order.  graph is the graph written, mode the     *)
(* writer, result the Result<String> returned ("writing" before the call).  *)

MaxTriples == 3

WriterValidTriples ==
    {Triple_new(s, p, o) :
        s \in {UriNode(<<"u", "/", "s">>), BlankNode(<<"b">>)},
        p \in {UriNode(<<"p">>), UriNode(<<"q">>)},
        o \in {UriNode(<<"c">>), LiteralNode(<<"x">>, NoneOpt, Some(<<"e", "n">>))}}

WriterInvalidTriples ==
    {Triple_new(LiteralNode(<<"x">>, NoneOpt, NoneOpt), UriNode(<<"p">>), UriNode(<<"c">>)),
     Triple_new(BlankNode(<<"b">>), LiteralNode(<<"x">>, NoneOpt, NoneOpt), UriNode(<<"c">>)),
     Triple_new(BlankNode(<<"b">>), BlankNode(<<"b">>), UriNode(<<"c">>)),
     Triple_new(BlankNode(<<"b">>), UriNode(<<"p">>),
                LiteralNode(<<"x">>, Some(<<"t">>), Some(<<"e", "n">>)))}

WriterGraphs ==
    {[base_uri |-> b, triples |-> ts, namespaces |-> ns, next_id |-> 0] :
        b \in {NoneOpt, Some(<<"c">>)},
        ns \in {<<>>, <<"e">> :> <<"u", "/">>},
        ts \in SeqsUpTo(WriterValidTriples \cup WriterInvalidTriples, 0, MaxTriples)}

WriterInit ==
    /\ doc = [family |-> "writer"]
    /\ mode \in {"TurtleWriter", "NTriplesWriter"}
    /\ lexer = Lexer_new(<<>>)
    /\ graph \in WriterGraphs
    /\ result = [err |-> "writing", v |-> <<>>]

TurtleWrite ==
    /\ mode = "TurtleWriter" /\ result.err = "writing"
    /\ \E order \in Orders(graph.namespaces) :
           result' = write_to_string(graph, order)
    /\ UNCHANGED <<doc, mode, lexer, graph>>

NTriplesWrite ==
    /\ mode = "NTriplesWriter" /\ result.err = "writing"
    /\ result' = NTriples_write_to_string(graph)
    /\ UNCHANGED <<doc, mode, lexer, graph>>

WriterNext == TurtleWrite \/ NTriplesWrite

WriterSpec == WriterInit /\ [][WriterNext]_vars

----------------------------------------------------------------------------
(* TripleStore (triple.rs) behind Graph (graph.rs): the operations of the   *)
(* graph that the parsers do not use                                        *)

count(g) == Len(g.triples)

is_empty(g) == count(g) = 0

\* a store that removes the first equal triple only
RECURSIVE retain_but_first(_, _)
retain_but_first(triples, triple) ==
    IF triples = <<>> THEN <<>>
    ELSE IF Head(triples) # triple
         THEN <<Head(triples)>> \o retain_but_first(Tail(triples), triple)
         ELSE Tail(triples)

remove_triple_first(g, triple) ==
    [g EXCEPT !.triples = retain_but_first(@, triple)]

\* Vec::retain(|t| t != triple)
RECURSIVE retain_other(_, _)
retain_other(triples, triple) ==
    IF triples = <<>> THEN <<>>
    ELSE IF Head(triples) # triple
         THEN <<Head(triples)>> \o retain_other(Tail(triples), triple)
         ELSE retain_other(Tail(triples), triple)

remove_triple(g, triple) ==
    [g EXCEPT !.triples = retain_other(@, triple)]

get_triples_with_subject(g, node) ==
    SelectSeq(g.triples, LAMBDA t : t.subject = node)

get_triples_with_predicate(g, node) ==
    SelectSeq(g.triples, LAMBDA t : t.predicate = node)

get_triples_with_object(g, node) ==
    SelectSeq(g.triples, LAMBDA t : t.object = node)

\* a lookup that takes a triple matching either node
get_triples_with_subject_or_object(g, subject_node, object_node) ==
    SelectSeq(g.triples,
              LAMBDA t : t.object = object_node \/ t.subject = subject_node)

get_triples_with_subject_and_object(g, subject_node, object_node) ==
    SelectSeq(g.triples,
              LAMBDA t : t.object = object_node /\ t.subject = subject_node)

get_triples_with_subject_and_predicate(g, subject_node, predicate_node) ==
    SelectSeq(g.triples,
              LAMBDA t : t.predicate = predicate_node /\ t.subject = subject_node)

get_triples_with_predicate_and_object(g, predicate_node, object_node) ==
    SelectSeq(g.triples,
              LAMBDA t : t.predicate = predicate_node /\ t.object = object_node)

create_blank_node_with_id(g, id) == BlankNode(id)

----------------------------------------------------------------------------
(* A graph under any sequence of its operations.  graph is the Graph; doc   *)
(* records the calls that took &mut self (ops), the nodes create_blank_node *)
(* returned (created) and the graph before the last call (before); result   *)
(* is the last call with what it returned.                                  *)

MaxOps == 3

StoreSubjects == {UriNode(<<"a">>), BlankNode(<<"b">>)}
StorePredicates == {UriNode(<<"p">>), UriNode(<<"q">>)}
StoreObjects == {UriNode(<<"c">>), BlankNode(<<"b">>)}

StoreTriples ==
    {Triple_new(UriNode(<<"a">>), UriNode(<<"p">>), UriNode(<<"c">>)),
     Triple_new(UriNode(<<"a">>), UriNode(<<"q">>), BlankNode(<<"b">>)),
     Triple_new(BlankNode(<<"b">>), UriNode(<<"p">>), UriNode(<<"c">>))}

StorePrefixes == {<<"p">>, <<"q">>, <<"r">>}
StoreNamespaces == {<<<<"p">>, <<"u", "1">>>>, <<<<"p">>, <<"u", "2">>>>, <<<<"q">>, <<"u", "1">>>>}

Called(op, args, v) == [op |-> op, args |-> args, v |-> v]

Mutated(op, args) ==
    doc' = [ops |-> Append(doc.ops, [op |-> op, args |-> args]),
            created |-> doc.created, before |-> graph]

Observed == doc' = [doc EXCEPT !.before = graph]

GraphInit ==
    /\ doc = [ops |-> <<>>, created |-> <<>>, before |-> Graph_new(NoneOpt)]
    /\ mode = "graph"
    /\ lexer = Lexer_new(<<>>)
    /\ graph = Graph_new(NoneOpt)
    /\ result = Called("new", <<>>, "unit")

CanMutate == Len(doc.ops) < MaxOps

AddTriple ==
    /\ CanMutate
    /\ \E t \in StoreTriples :
           /\ graph' = add_triple(graph, t)
           /\ result' = Called("add_triple", <<t>>, "unit")
           /\ Mutated("add_triple", <<t>>)
    /\ UNCHANGED <<mode, lexer>>

RemoveTriple ==
    /\ CanMutate
    /\ \E t \in StoreTriples :
           /\ graph' = remove_triple(graph, t)
           /\ result' = Called("remove_triple", <<t>>, "unit")
           /\ Mutated("remove_triple", <<t>>)
    /\ UNCHANGED <<mode, lexer>>

CreateBlankNode ==
    /\ CanMutate
    /\ \E c \in {create_blank_node(graph)} :
           /\ graph' = c.g
           /\ result' = Called("create_blank_node", <<>>, c.node)
           /\ doc' = [ops |-> Append(doc.ops, [op |-> "create_blank_node", args |-> <<>>]),
                      created |-> Append(doc.created, c.node),
                      before |-> graph]
    /\ UNCHANGED <<mode, lexer>>

AddNamespace ==
    /\ CanMutate
    /\ \E ns \in StoreNamespaces :
           /\ graph' = add_namespace(graph, ns[1], ns[2])
           /\ result' = Called("add_namespace", ns, "unit")
           /\ Mutated("add_namespace", ns)
    /\ UNCHANGED <<mode, lexer>>

SetBaseUri ==
    /\ CanMutate
    /\ graph' = set_base_uri(graph, <<"u", "1">>)
    /\ result' = Called("set_base_uri", <<<<"u", "1">>>>, "unit")
    /\ Mutated("set_base_uri", <<<<"u", "1">>>>)
    /\ UNCHANGED <<mode, lexer>>

CreateBlankNodeWithId ==
    /\ \E id \in {<<"a", "u", "t", "o", "0">>, <<"b">>} :
           result' = Called("create_blank_node_with_id", <<id>>,
                            create_blank_node_with_id(graph, id))
    /\ Observed
    /\ UNCHANGED <<mode, lexer, graph>>

Count ==
    /\ \/ result' = Called("count", <<>>, count(graph))
       \/ result' = Called("is_empty", <<>>, is_empty(graph))
    /\ Observed
    /\ UNCHANGED <<mode, lexer, graph>>

LookupOne ==
    /\ \/ \E n \in StoreSubjects :
              result' = Called("get_triples_with_subject", <<n>>,
                               get_triples_with_subject(graph, n))
       \/ \E n \in StorePredicates :
              result' = Called("get_triples_with_predicate", <<n>>,
                               get_triples_with_predicate(graph, n))
       \/ \E n \in StoreObjects :
              result' = Called("get_triples_with_object", <<n>>,
                               get_triples_with_object(graph, n))
    /\ Observed
    /\ UNCHANGED <<mode, lexer, graph>>

LookupTwo ==
    /\ \/ \E s \in StoreSubjects, o \in StoreObjects :
              result' = Called("get_triples_with_subject_and_object", <<s, o>>,
                               get_triples_with_subject_and_object(graph, s, o))
       \/ \E s \in StoreSubjects, p \in StorePredicates :
              result' = Called("get_triples_with_subject_and_predicate", <<s, p>>,
                               get_triples_with_subject_and_predicate(graph, s, p))
       \/ \E p \in StorePredicates, o \in StoreObjects :
              result' = Called("get_triples_with_predicate_and_object", <<p, o>>,
                               get_triples_with_predicate_and_object(graph, p, o))
    /\ Observed
    /\ UNCHANGED <<mode, lexer, graph>>

GetNamespaceUriByPrefix ==
    /\ \E prefix \in StorePrefixes :
           result' = Called("get_namespace_uri_by_prefix", <<prefix>>,
                            get_namespace_uri_by_prefix(graph, prefix))
    /\ Observed
    /\ UNCHANGED <<mode, lexer, graph>>

GraphNext ==
    \/ AddTriple
    \/ RemoveTriple
    \/ CreateBlankNode
    \/ AddNamespace
    \/ SetBaseUri
    \/ CreateBlankNodeWithId
    \/ Count
    \/ LookupOne
    \/ LookupTwo
    \/ GetNamespaceUriByPrefix

GraphSpec == GraphInit /\ [][GraphNext]_vars

----------------------------------------------------------------------------
(* SparqlKeyword (specs/sparql_specs.rs) and SparqlLexer                    *)
(* (reader/lexer/sparql_lexer.rs)                                           *)

\* FromStr for SparqlKeyword: the keyword, or "" for Err(InvalidSparqlInput)
SparqlKeyword_from_str(s) ==
    CASE s = <<"B", "A", "S", "E">> -> "Base"
      [] s = <<"P", "R", "E", "F", "I", "X">> -> "Prefix"
      [] s = <<"S", "E", "L", "E", "C", "T">> -> "Select"
      [] s = <<"W", "H", "E", "R", "E">> -> "Where"
      [] s = <<"D", "I", "S", "T", "I", "N", "C", "T">> -> "Distinct"
      [] s = <<"R", "E", "D", "U", "C", "E", "D">> -> "Reduced"
      [] s = <<"C", "O", "N", "S", "T", "R", "U", "C", "T">> -> "Construct"
      [] s = <<"D", "E", "S", "C", "R", "I", "B", "E">> -> "Describe"
      [] s = <<"A", "S", "K">> -> "Ask"
      [] s = <<"F", "R", "O", "M">> -> "From"
      [] s = <<"N", "A", "M", "E", "D">> -> "Named"
      [] s = <<"O", "R", "D", "E", "R">> -> "Order"
      [] s = <<"B", "Y">> -> "By"
      [] s = <<"A", "S", "C">> -> "Asc"
      [] s = <<"D", "E", "S", "C">> -> "Desc"
      [] s = <<"O", "F", "F", "S", "E", "T">> -> "Offset"
      [] s = <<"O", "P", "T", "I", "O", "N", "A", "L">> -> "Optional"
      [] s = <<"F", "I", "L", "T", "E", "R">> -> "Filter"
      [] s = <<"G", "R", "A", "P", "H">> -> "Graph"
      [] s = <<"U", "N", "I", "O", "N">> -> "Union"
      [] s = <<"R", "E", "G", "E", "X">> -> "Regex"
      [] OTHER -> ""

\* a keyword is the token of its name; after BASE and PREFIX a QName is read
get_qname_or_keyword(r0) ==
    The({IF ~IsOk(input) THEN input
         ELSE IF SparqlKeyword_from_str(to_string(input.v)) = ""
         THEN Err("InvalidSparqlInput", <<>>, input.r)
         ELSE IF SparqlKeyword_from_str(to_string(input.v)) \in {"Base", "Prefix"}
         THEN get_qname(input.r)
         ELSE Ok(T0(SparqlKeyword_from_str(to_string(input.v))), input.r) :
         input \in {get_until(r0, {" "})}})

\* a variable named by all the characters up to the delimiter
get_variable_greedy(r0) ==
    The({IF ~IsOk(n) THEN n
         ELSE Ok(T1("SparqlVariable", <<"?">> \o to_string(n.v)), n.r) :
         n \in {get_until_discard_leading_spaces(r0, node_delimiter)}})

get_variable(r0) ==
    The({IF ~IsOk(n) THEN n
         ELSE Ok(T1("SparqlVariable", to_string(n.v)), n.r) :
         n \in {get_until_discard_leading_spaces(r0, node_delimiter)}})

\* match get_base_or_prefix: Ok(token) => return; _ => {} and on to the end
OrQNameOrKeyword(res) == IF IsOk(res) THEN res ELSE get_qname_or_keyword(res.r)

Sparql_get_next_token(lx) ==
    IF lx.peeked_token # NoneOpt
    THEN Ok(lx.peeked_token[1], [lx EXCEPT !.peeked_token = NoneOpt])
    ELSE WithReader(lx,
             The({CASE p.c = "#" -> get_comment(p.r)
                    [] p.c \in {"P", "B"} -> OrQNameOrKeyword(get_base_or_prefix(p.r))
                    [] p.c \in {"\"", "'"} -> Turtle_get_literal(p.r)
                    [] p.c = "<" -> get_uri(p.r)
                    [] p.c = "_" -> get_blank_node(p.r)
                    [] p.c = "." -> OrTripleDelimiter(get_numeric(p.r))
                    [] p.c = "[" ->
                         Ok(T0("UnlabeledBlankNodeStart"), consume_next_char(p.r))
                    [] p.c = "]" ->
                         Ok(T0("UnlabeledBlankNodeEnd"), consume_next_char(p.r))
                    [] p.c = "{" -> Ok(T0("GroupStart"), consume_next_char(p.r))
                    [] p.c = "}" -> Ok(T0("GroupEnd"), consume_next_char(p.r))
                    [] p.c = "," ->
                         Ok(T0("ObjectListDelimiter"), consume_next_char(p.r))
                    [] p.c = ";" ->
                         Ok(T0("PredicateListDelimiter"), consume_next_char(p.r))
                    [] p.c = "*" -> Ok(T0("Asterisk"), consume_next_char(p.r))
                    [] p.c \in {"?", "$"} -> get_variable(consume_next_char(p.r))
                    [] p.c \in {"+", "-"} -> get_numeric(p.r)
                    [] p.c \in digit -> get_numeric(p.r)
                    [] p.c = NoneChar -> Ok(T0("EndOfInput"), p.r)
                    [] OTHER -> get_qname_or_keyword(p.r) :
                  p \in {peek_next_char_discard_leading_spaces(lx.input_reader)}}))

Sparql_peek_next_token(lx) ==
    IF lx.peeked_token # NoneOpt
    THEN Ok(lx.peeked_token[1], lx)
    ELSE The({IF IsOk(n)
              THEN Ok(n.v, [n.r EXCEPT !.peeked_token = Some(n.v)])
              ELSE n :
              n \in {Sparql_get_next_token(lx)}})

----------------------------------------------------------------------------
(* SparqlQuery (sparql/query.rs), the patterns (sparql/pattern.rs) and      *)
(* SparqlParser (reader/sparql_parser.rs).  The rules take the lexer and    *)
(* the query and return the lexer they leave behind.                        *)

SparqlQuery_new(query_type) ==
    [query_type |-> query_type, base_uri |-> NoneOpt, namespaces |-> <<>>,
     variables |-> <<>>, patterns |-> <<>>]

add_variables(query, variables) == [query EXCEPT !.variables = variables]

add_pattern(owner, pattern) == [owner EXCEPT !.patterns = Append(@, pattern)]

GroupPattern_new ==
    [pattern |-> "GroupPattern", patterns |-> <<>>,
     is_union |-> FALSE, is_optional |-> FALSE]

set_is_optional(group) == [group EXCEPT !.is_optional = TRUE]

TriplePattern_new(subject, predicate, object) ==
    [pattern |-> "TriplePattern", subject |-> subject, predicate |-> predicate,
     object |-> object, is_optional |-> FALSE, is_union |-> FALSE]

VariableNode(name) == [node |-> "VariableNode", name |-> name]
FixedNode(n) == [node |-> "FixedNode", fixed |-> n]

\* query.get_namespace_uri_by_prefix(prefix)?, then the path appended
QNamePattern(lx, query, token) ==
    The({IF u.err # "Ok" THEN Err(u.err, <<>>, lx)
         ELSE Ok(FixedNode(UriNode(append_resource_path(u.v,
                               replace_char(token.b, ":", "/")))), lx) :
         u \in {get_namespace_uri_by_prefix(query, token.a)}})

read_subject_pattern(lx, query) ==
    The({IF ~IsOk(t) THEN t
         ELSE CASE t.v.k = "BlankNode" -> Ok(FixedNode(BlankNode(t.v.a)), t.r)
                [] t.v.k = "QName" -> QNamePattern(t.r, query, t.v)
                [] t.v.k = "Uri" -> Ok(FixedNode(UriNode(t.v.a)), t.r)
                [] t.v.k = "SparqlVariable" -> Ok(VariableNode(t.v.a), t.r)
                [] OTHER -> Err("InvalidToken", <<>>, t.r) :
         t \in {Sparql_get_next_token(lx)}})

read_object_pattern(lx, query) ==
    The({IF ~IsOk(t) THEN t
         ELSE CASE t.v.k = "BlankNode" -> Ok(FixedNode(BlankNode(t.v.a)), t.r)
                [] t.v.k = "Uri" -> Ok(FixedNode(UriNode(t.v.a)), t.r)
                [] t.v.k = "QName" -> QNamePattern(t.r, query, t.v)
                [] t.v.k = "SparqlVariable" -> Ok(VariableNode(t.v.a), t.r)
                [] t.v.k = "LiteralWithLanguageSpecification" ->
                     Ok(FixedNode(LiteralNode(t.v.a, NoneOpt, Some(t.v.b))), t.r)
                [] t.v.k = "LiteralWithUrlDatatype" ->
                     Ok(FixedNode(LiteralNode(t.v.a, Some(t.v.b), NoneOpt)), t.r)
                [] t.v.k = "Literal" ->
                     Ok(FixedNode(LiteralNode(t.v.a, NoneOpt, NoneOpt)), t.r)
                [] OTHER -> Err("InvalidToken", <<>>, t.r) :
         t \in {Sparql_get_next_token(lx)}})

\* the predicate of read_predicate_with_object_pattern
read_predicate_pattern(lx, query) ==
    The({IF ~IsOk(t) THEN t
         ELSE CASE t.v.k = "Uri" -> Ok(FixedNode(UriNode(t.v.a)), t.r)
                [] t.v.k = "KeywordA" ->
                     Ok(FixedNode(UriNode(RdfSyntaxDataTypes_A)), t.r)
                [] t.v.k = "QName" -> QNamePattern(t.r, query, t.v)
                [] t.v.k = "BlankNode" -> Ok(FixedNode(BlankNode(t.v.a)), t.r)
                [] t.v.k = "SparqlVariable" -> Ok(VariableNode(t.v.a), t.r)
                [] OTHER -> Err("InvalidToken", <<>>, t.r) :
         t \in {Sparql_get_next_token(lx)}})

\* returns <<predicate, object>>
read_predicate_with_object_pattern(lx, query) ==
    The({IF ~IsOk(predicate) THEN predicate
         ELSE The({IF ~IsOk(object) THEN object
                   ELSE Ok(<<predicate.v, object.v>>, object.r) :
                   object \in {read_object_pattern(predicate.r, query)}}) :
         predicate \in {read_predicate_pattern(lx, query)}})

\* the loop of read_predicate_object_list_pattern; the predicate read after
\* ';' is bound inside its arm only, so predicate stays the first one
RECURSIVE read_predicate_object_list_pattern_loop(_, _, _, _, _)
read_predicate_object_list_pattern_loop(lx, query, subject, predicate, triples) ==
    The({IF ~IsOk(p) THEN p
         ELSE CASE p.v.k = "TripleDelimiter" ->
                     Ok(triples, Sparql_get_next_token(p.r).r)
                [] p.v.k = "GroupEnd" -> Ok(triples, p.r)
                [] p.v.k = "PredicateListDelimiter" ->
                     The({IF ~IsOk(po) THEN po
                          ELSE read_predicate_object_list_pattern_loop(
                                   po.r, query, subject, predicate,
                                   Append(triples,
                                          TriplePattern_new(subject, po.v[1], po.v[2]))) :
                          po \in {read_predicate_with_object_pattern(
                                      Sparql_get_next_token(p.r).r, query)}})
                [] p.v.k = "ObjectListDelimiter" ->
                     The({IF ~IsOk(object) THEN object
                          ELSE read_predicate_object_list_pattern_loop(
                                   object.r, query, subject, predicate,
                                   Append(triples,
                                          TriplePattern_new(subject, predicate, object.v))) :
                          object \in {read_object_pattern(
                                          Sparql_get_next_token(p.r).r, query)}})
                [] OTHER -> Err("InvalidToken", <<>>, p.r) :
         p \in {Sparql_peek_next_token(lx)}})

read_predicate_object_list_pattern(lx, query, subject) ==
    The({IF ~IsOk(po) THEN po
         ELSE read_predicate_object_list_pattern_loop(
                  po.r, query, subject, po.v[1],
                  <<TriplePattern_new(subject, po.v[1], po.v[2])>>) :
         po \in {read_predicate_with_object_pattern(lx, query)}})

read_triples_pattern(lx, query) ==
    The({IF ~IsOk(subject) THEN subject
         ELSE read_predicate_object_list_pattern(subject.r, query, subject.v) :
         subject \in {read_subject_pattern(lx, query)}})

\* read_select_query: the modifier.  Returns the query type so far.
read_modifier_swapped(lx) ==
    The({IF ~IsOk(p) THEN p
         ELSE CASE p.v.k = "Reduced" ->
                     Ok("SelectDistinct", Sparql_get_next_token(p.r).r)
                [] p.v.k = "Distinct" ->
                     Ok("SelectReduced", Sparql_get_next_token(p.r).r)
                [] OTHER -> Ok("Select", p.r) :
         p \in {Sparql_peek_next_token(lx)}})

read_modifier(lx) ==
    The({IF ~IsOk(p) THEN p
         ELSE CASE p.v.k = "Reduced" ->
                     Ok("SelectReduced", Sparql_get_next_token(p.r).r)
                [] p.v.k = "Distinct" ->
                     Ok("SelectDistinct", Sparql_get_next_token(p.r).r)
                [] OTHER -> Ok("Select", p.r) :
         p \in {Sparql_peek_next_token(lx)}})

\* read_select_query: the loop over the variables after the first
RECURSIVE read_variables_loop(_, _)
read_variables_loop(lx, variables) ==
    The({IF IsOk(p) /\ p.v.k = "SparqlVariable"
         THEN read_variables_loop(Sparql_get_next_token(p.r).r,
                                  Append(variables, p.v.a))
         ELSE IF ~IsOk(p) /\ p.err # "EndOfInput"
         THEN Err("InvalidReaderInput", <<>>, p.r)
         ELSE Ok(variables, p.r) :
         p \in {Sparql_peek_next_token(lx)}})

\* read_select_query: '*' or the variables.  Returns the query type and
\* the variables.
read_projection(lx, query_type) ==
    The({IF ~IsOk(t) THEN t
         ELSE CASE t.v.k = "Asterisk" ->
                     Ok([query_type |->
                            CASE query_type = "SelectDistinct" -> "SelectAllDistinct"
                              [] query_type = "SelectReduced" -> "SelectAllReduced"
                              [] OTHER -> "SelectAll",
                         variables |-> <<>>], t.r)
                [] t.v.k = "SparqlVariable" ->
                     The({IF ~IsOk(vs) THEN vs
                          ELSE Ok([query_type |-> query_type, variables |-> vs.v],
                                  vs.r) :
                          vs \in {read_variables_loop(t.r, <<t.v.a>>)}})
                [] OTHER -> Err("InvalidToken", <<>>, t.r) :
         t \in {Sparql_get_next_token(lx)}})

\* read_select_query: the optional WHERE and the '{' of the root group
read_where(lx) ==
    The({IF ~IsOk(p) THEN p
         ELSE The({IF ~IsOk(t) THEN t
                   ELSE IF t.v.k = "GroupStart" THEN t
                   ELSE Err("InvalidToken", <<>>, t.r) :
                   t \in {Sparql_get_next_token(
                              IF p.v.k = "Where" THEN Sparql_get_next_token(p.r).r
                              ELSE p.r)}}) :
         p \in {Sparql_peek_next_token(lx)}})

\* read_select_query up to the call of parse_group
read_select_query(lx) ==
    The({IF ~IsOk(modifier) THEN modifier
         ELSE The({IF ~IsOk(projection) THEN projection
                   ELSE The({IF ~IsOk(where) THEN where
                             ELSE Ok(projection.v, where.r) :
                             where \in {read_where(projection.r)}}) :
                   projection \in {read_projection(modifier.r, modifier.v)}}) :
         modifier \in {read_modifier(lx)}})

----------------------------------------------------------------------------
(* SparqlParser::decode.  lexer is the lexer of the parser, graph the query *)
(* once read_select_query has made it, result what decode returned          *)
(* ("running" before).  mode is where the parser is: at "decode" in the     *)
(* loop of decode, at "parse_group" in the loop of the innermost call of    *)
(* parse_group, with the variables of read_select_query and the groups of   *)
(* the calls of parse_group that have not returned (groups, innermost       *)
(* last; optional marks the call made for OPTIONAL).                        *)

SparqlAt(at) == mode.at = at /\ result = "running"

Frame(optional) == [group |-> GroupPattern_new, optional |-> optional]

SparqlDecodePeekError ==
    /\ SparqlAt("decode")
    /\ \E p \in {Sparql_peek_next_token(lexer)} :
           /\ ~IsOk(p)
           /\ lexer' = p.r
           /\ result' = p.err
    /\ UNCHANGED <<doc, mode, graph>>

SparqlDecodeComment ==
    /\ SparqlAt("decode")
    /\ \E p \in {Sparql_peek_next_token(lexer)} :
           /\ IsOk(p) /\ p.v.k = "Comment"
           /\ lexer' = Sparql_get_next_token(p.r).r
    /\ UNCHANGED <<doc, mode, graph, result>>

SparqlDecodeSelect ==
    /\ SparqlAt("decode")
    /\ \E p \in {Sparql_peek_next_token(lexer)} :
           /\ IsOk(p) /\ p.v.k = "Select"
           /\ \E q \in {read_select_query(Sparql_get_next_token(p.r).r)} :
                  /\ lexer' = q.r
                  /\ IF IsOk(q)
                     THEN /\ graph' = SparqlQuery_new(q.v.query_type)
                          /\ mode' = [at |-> "parse_group",
                                      variables |-> q.v.variables,
                                      groups |-> <<Frame(FALSE)>>]
                          /\ result' = result
                     ELSE /\ result' = q.err
                          /\ UNCHANGED <<graph, mode>>
    /\ UNCHANGED doc

SparqlDecodeInvalidToken ==
    /\ SparqlAt("decode")
    /\ \E p \in {Sparql_peek_next_token(lexer)} :
           /\ IsOk(p) /\ p.v.k \notin {"Comment", "Select"}
           /\ lexer' = p.r
    /\ result' = "InvalidToken"
    /\ UNCHANGED <<doc, mode, graph>>

\* self.lexer.peek_next_token()? in parse_group: every call returns the error
ParseGroupPeekError ==
    /\ SparqlAt("parse_group")
    /\ \E p \in {Sparql_peek_next_token(lexer)} :
           /\ ~IsOk(p)
           /\ lexer' = p.r
           /\ result' = p.err
    /\ UNCHANGED <<doc, mode, graph>>

\* the patterns of read_triples_pattern are added to the group
RECURSIVE add_patterns(_, _)
add_patterns(group, patterns) ==
    IF patterns = <<>> THEN group
    ELSE add_patterns(add_pattern(group, Head(patterns)), Tail(patterns))

ParseGroupTriples ==
    /\ SparqlAt("parse_group")
    /\ \E p \in {Sparql_peek_next_token(lexer)} :
           /\ IsOk(p) /\ p.v.k \in {"SparqlVariable", "BlankNode", "QName", "Uri"}
           /\ \E patterns \in {read_triples_pattern(p.r, graph)} :
                  /\ lexer' = patterns.r
                  /\ IF IsOk(patterns)
                     THEN /\ mode' = [mode EXCEPT !.groups[Len(mode.groups)].group =
                                          add_patterns(@, patterns.v)]
                          /\ result' = result
                     ELSE /\ result' = patterns.err
                          /\ mode' = mode
    /\ UNCHANGED <<doc, graph>>

\* OPTIONAL and the token after it are consumed, whatever that token is
ParseGroupOptional ==
    /\ SparqlAt("parse_group")
    /\ \E p \in {Sparql_peek_next_token(lexer)} :
           /\ IsOk(p) /\ p.v.k = "Optional"
           /\ lexer' = Sparql_get_next_token(Sparql_get_next_token(p.r).r).r
    /\ mode' = [mode EXCEPT !.groups = Append(@, Frame(TRUE))]
    /\ UNCHANGED <<doc, graph, result>>

ParseGroupNested ==
    /\ SparqlAt("parse_group")
    /\ \E p \in {Sparql_peek_next_token(lexer)} :
           /\ IsOk(p) /\ p.v.k = "GroupStart"
           /\ lexer' = Sparql_get_next_token(p.r).r
    /\ mode' = [mode EXCEPT !.groups = Append(@, Frame(FALSE))]
    /\ UNCHANGED <<doc, graph, result>>

\* the group a call of parse_group returns, as its caller adds it
Returned(frame) ==
    IF frame.optional THEN set_is_optional(frame.group) ELSE frame.group

\* the calls left when the innermost returns its group to its caller
ReturnedTo(groups) ==
    [k \in 1..(Len(groups) - 1) |->
        IF k = Len(groups) - 1
        THEN [groups[k] EXCEPT !.group =
                                   add_pattern(@, Returned(groups[Len(groups)]))]
        ELSE groups[k]]

\* '}' is consumed and the call returns: to the call of parse_group that
\* made it, or to read_select_query, which returns the query
ParseGroupEnd ==
    /\ SparqlAt("parse_group")
    /\ \E p \in {Sparql_peek_next_token(lexer)} :
           /\ IsOk(p) /\ p.v.k = "GroupEnd"
           /\ lexer' = Sparql_get_next_token(p.r).r
    /\ IF Len(mode.groups) = 1
       THEN /\ graph' = add_variables(add_pattern(graph, Returned(mode.groups[1])),
                                      mode.variables)
            /\ mode' = [mode EXCEPT !.at = "returned", !.groups = <<>>]
            /\ result' = "Ok"
       ELSE /\ mode' = [mode EXCEPT !.groups = ReturnedTo(@)]
            /\ UNCHANGED <<graph, result>>
    /\ UNCHANGED doc

\* Token::Filter => {} and _ => {}: the token stays peeked and the loop
\* goes round
ParseGroupSkip ==
    /\ SparqlAt("parse_group")
    /\ \E p \in {Sparql_peek_next_token(lexer)} :
           /\ IsOk(p)
           /\ p.v.k \notin {"SparqlVariable", "BlankNode", "QName", "Uri",
                            "Optional", "GroupStart", "GroupEnd"}
           /\ lexer' = p.r
    /\ UNCHANGED <<doc, mode, graph, result>>

----------------------------------------------------------------------------
(* The queries decoded: a start, a modifier, a projection, WHERE or not,    *)
(* and a group, each followed by a space                                    *)

SparqlStarts == {<<"S", "E", "L", "E", "C", "T">>, <<"A", "S", "K">>, <<"<", "u", ">">>, <<"x">>}
SparqlModifiers == {<<>>, <<"D", "I", "S", "T", "I", "N", "C", "T">>, <<"R", "E", "D", "U", "C", "E", "D">>}
SparqlVariableLists ==
    {<<[sigil |-> "?", name |-> <<"a">>]>>,
     <<[sigil |-> "?", name |-> <<"s">>], [sigil |-> "$", name |-> <<"b">>]>>,
     <<[sigil |-> "$", name |-> <<"b">>], [sigil |-> "?", name |-> <<"a">>],
       [sigil |-> "?", name |-> <<"p">>]>>}
SparqlProjections ==
    {[kind |-> "star", vars |-> <<>>, text |-> <<"*">>],
     [kind |-> "other", vars |-> <<>>, text |-> <<>>],
     [kind |-> "other", vars |-> <<>>, text |-> <<"<", "u", ">">>],
     [kind |-> "other", vars |-> <<>>, text |-> <<"\"", "x", "\"">>]}
    \cup {[kind |-> "vars", vars |-> vs, text |-> <<>>] : vs \in SparqlVariableLists}
SparqlGroups ==
    {<<"{", " ", "}">>,
     <<"{", " ", "?", "s", " ", "?", "p", " ", "?", "o", " ", "}">>,
     <<"{", " ", "?", "s", " ", "?", "p", " ", "?", "o", " ", ".", " ", "}">>,
     <<"{", " ", "?", "s", " ", "<", "p", ">", " ", "?", "o", " ", ".", " ", "?", "s", " ", "<", "q", ">", " ", "5", " ", "}">>,
     <<"{", " ", "?", "s", " ", "<", "p", ">", " ", "?", "o", " ", ";", " ", "<", "q", ">", " ", "?", "z", " ", ",", " ", "?", "w", " ", "}">>,
     <<"{", " ", "O", "P", "T", "I", "O", "N", "A", "L", " ", "{", " ", "?", "s", " ", "?", "p", " ", "?", "o", " ", "}", " ", "}">>,
     <<"{", " ", "{", " ", "?", "s", " ", "?", "p", " ", "?", "o", " ", "}", " ", "?", "x", " ", "?", "p", " ", "?", "y", " ", "}">>,
     <<"{", " ", "F", "I", "L", "T", "E", "R", " ", "}">>,
     <<"{", " ", "?", "s", " ", "?", "p", " ", "?", "o", " ", ".", " ", "F", "I", "L", "T", "E", "R", " ", "}">>,
     <<"{", " ", "U", "N", "I", "O", "N", " ", "}">>,
     <<"{", " ", "{", " ", "}", " ", "U", "N", "I", "O", "N", " ", "{", " ", "}", " ", "}">>,
     <<"{", " ", ".", " ", "}">>,
     <<"{", " ", "\"", "x", "\"", " ", "}">>,
     <<"{", " ", "?", "s", " ", "?", "p", " ", "?", "o", " ", ".", " ", "}", " ", "}">>,
     <<"{", " ">>,
     <<"{", " ", "?", "s", " ", "?", "p", " ", "?", "o", " ", ".", " ">>,
     <<"{", " ", "?", "s", " ", "?", "p", " ", "?", "o", " ">>,
     <<"{", " ", "?", "s", " ", "?", "p", " ", "?", "o">>,
     <<"{", " ", "O", "P", "T", "I", "O", "N", "A", "L", " ", "{", " ", "?", "s", " ", "?", "p", " ", "?", "o", " ", "}", " ">>,
     <<"{", " ", "x", " ", "}">>,
     <<"{">>}

\* the texts, each followed by a space, the empty ones left out
RECURSIVE Words(_)
Words(texts) ==
    IF texts = <<>> THEN <<>>
    ELSE (IF Head(texts) = <<>> THEN <<>> ELSE Head(texts) \o <<" ">>)
           \o Words(Tail(texts))

RECURSIVE VariableWords(_)
VariableWords(vs) ==
    IF vs = <<>> THEN <<>>
    ELSE <<Head(vs).sigil>> \o Head(vs).name \o <<" ">> \o VariableWords(Tail(vs))

SparqlRender(d) ==
    (IF d.comment THEN <<"#", " ", "c", "\n">> ELSE <<>>)
      \o Words(<<d.start, d.modifier>>)
      \o (IF d.projection.kind = "vars" THEN VariableWords(d.projection.vars)
          ELSE Words(<<d.projection.text>>))
      \o Words(<<IF d.where THEN <<"W", "H", "E", "R", "E">> ELSE <<>>>>)
      \o d.group

SparqlDocuments ==
    {[family |-> "sparql", comment |-> c, start |-> s, modifier |-> m,
      projection |-> p, where |-> w, group |-> g] :
        c \in BOOLEAN, s \in SparqlStarts, m \in SparqlModifiers,
        p \in SparqlProjections, w \in BOOLEAN, g \in SparqlGroups}

SparqlInit ==
    /\ doc \in SparqlDocuments
    /\ mode = [at |-> "decode", variables |-> <<>>, groups |-> <<>>]
    /\ lexer = Lexer_new(SparqlRender(doc))
    /\ graph = NoneOpt
    /\ result = "running"

SparqlNext ==
    \/ SparqlDecodePeekError
    \/ SparqlDecodeComment
    \/ SparqlDecodeSelect
    \/ SparqlDecodeInvalidToken
    \/ ParseGroupPeekError
    \/ ParseGroupTriples
    \/ ParseGroupOptional
    \/ ParseGroupNested
    \/ ParseGroupEnd
    \/ ParseGroupSkip

SparqlSpec == SparqlInit /\ [][SparqlNext]_vars


----------------------------------------------------------------------------
(* The InputReader on its own: a reader over a text, called through its     *)
(* public functions in any order.  lexer.input_reader is the reader; doc    *)
(* holds the text, the characters the get calls have returned (got) and     *)
(* whether only get_next_char, get_next_k_chars, peek_next_char and         *)
(* peek_next_k_chars have been called (plain); result is the last call.     *)

MaxText == 4
MaxCalls == 3
MaxK == 3

ReaderChars == {"a", " ", "."}
ReaderTexts == SeqsUpTo(ReaderChars, 0, MaxText)
ReaderDelimiters == {whitespace, node_delimiter}

ReaderCalled(op, k, v, err) ==
    [op |-> op, k |-> k, v |-> v, err |-> err, before |-> lexer.input_reader]

ReaderInit ==
    /\ doc \in {[family |-> "reader", text |-> t, got |-> <<>>, plain |-> TRUE, calls |-> 0] :
                  t \in ReaderTexts}
    /\ mode = "InputReader"
    /\ lexer = [input_reader |-> InputReader_new(doc.text), peeked_token |-> NoneOpt]
    /\ graph = NoneOpt
    /\ result = [op |-> "new", k |-> 0, v |-> <<>>, err |-> "Ok",
                 before |-> InputReader_new(doc.text)]

CanCall == mode = "InputReader" /\ doc.calls < MaxCalls

GetNextChar ==
    /\ CanCall
    /\ \E n \in {get_next_char(lexer.input_reader)} :
         /\ lexer' = [lexer EXCEPT !.input_reader = n.r]
         /\ doc' = [doc EXCEPT !.got = Append(@, n.c), !.calls = @ + 1]
         /\ result' = ReaderCalled("get_next_char", 1, <<n.c>>, "Ok")
    /\ UNCHANGED <<mode, graph>>

GetNextKChars ==
    /\ CanCall
    /\ \E k \in 1..MaxK : \E n \in {get_next_k_chars(lexer.input_reader, k)} :
         /\ lexer' = [lexer EXCEPT !.input_reader = n.r]
         /\ doc' = [doc EXCEPT !.got = @ \o n.chars, !.calls = @ + 1]
         /\ result' = ReaderCalled("get_next_k_chars", k, n.chars, "Ok")
    /\ UNCHANGED <<mode, graph>>

PeekNextChar ==
    /\ CanCall
    /\ \E p \in {peek_next_char(lexer.input_reader)} :
         /\ lexer' = [lexer EXCEPT !.input_reader = p.r]
         /\ doc' = [doc EXCEPT !.calls = @ + 1]
         /\ result' = ReaderCalled("peek_next_char", 1, <<p.c>>, "Ok")
    /\ UNCHANGED <<mode, graph>>

PeekNextKChars ==
    /\ CanCall
    /\ \E k \in 1..MaxK : \E p \in {peek_next_k_chars(lexer.input_reader, k)} :
         /\ lexer' = [lexer EXCEPT !.input_reader = p.r]
         /\ doc' = [doc EXCEPT !.calls = @ + 1]
         /\ result' = ReaderCalled("peek_next_k_chars", k, p.chars, "Ok")
    /\ UNCHANGED <<mode, graph>>

GetNextCharDiscardLeadingSpaces ==
    /\ CanCall
    /\ \E n \in {get_next_char_discard_leading_spaces(lexer.input_reader)} :
         /\ lexer' = [lexer EXCEPT !.input_reader = n.r]
         /\ doc' = [doc EXCEPT !.plain = FALSE, !.calls = @ + 1]
         /\ result' = ReaderCalled("get_next_char_discard_leading_spaces", 1, <<n.c>>, "Ok")
    /\ UNCHANGED <<mode, graph>>

PeekNextCharDiscardLeadingSpaces ==
    /\ CanCall
    /\ \E p \in {peek_next_char_discard_leading_spaces(lexer.input_reader)} :
         /\ lexer' = [lexer EXCEPT !.input_reader = p.r]
         /\ doc' = [doc EXCEPT !.plain = FALSE, !.calls = @ + 1]
         /\ result' = ReaderCalled("peek_next_char_discard_leading_spaces", 1, <<p.c>>, "Ok")
    /\ UNCHANGED <<mode, graph>>

GetUntil ==
    /\ CanCall
    /\ \E d \in ReaderDelimiters : \E g \in {get_until(lexer.input_reader, d)} :
         /\ lexer' = [lexer EXCEPT !.input_reader = g.r]
         /\ doc' = [doc EXCEPT !.plain = FALSE, !.calls = @ + 1]
         /\ result' = ReaderCalled("get_until", d, g.v, g.err)
    /\ UNCHANGED <<mode, graph>>

ReaderNext ==
    \/ GetNextChar
    \/ GetNextKChars
    \/ PeekNextChar
    \/ PeekNextKChars
    \/ GetNextCharDiscardLeadingSpaces
    \/ PeekNextCharDiscardLeadingSpaces
    \/ GetUntil

ReaderSpec == ReaderInit /\ [][ReaderNext]_vars

----------------------------------------------------------------------------
(* The lexers on their own: a lexer over the text of a token, a separator,  *)
(* the text of a second token and a tail, called through get_next_token and *)
(* peek_next_token in any order.  result holds the results of the           *)
(* get_next_token calls (got), the last call (last) and whether every       *)
(* peek_next_token so far returned Ok (peeks_ok).                           *)

MaxTokenCalls == 4

\* RdfLexer::get_next_token and ::peek_next_token of the lexer of a kind
get_next_token(kind, lx) ==
    CASE kind = "NTriplesLexer" -> NTriples_get_next_token(lx)
      [] kind = "TurtleLexer" -> Turtle_get_next_token(lx)
      [] kind = "SparqlLexer" -> Sparql_get_next_token(lx)

peek_next_token(kind, lx) ==
    CASE kind = "NTriplesLexer" -> NTriples_peek_next_token(lx)
      [] kind = "TurtleLexer" -> Turtle_peek_next_token(lx)
      [] kind = "SparqlLexer" -> Sparql_peek_next_token(lx)

\* the tokens of reader/lexer/token.rs as they are written, and the lexers
\* whose get_next_token has an arm for them
LexerTokens ==
    {[text |-> <<"<", "a", ">">>,
      token |-> T1("Uri", <<"a">>),
      lexers |-> {"NTriplesLexer", "TurtleLexer", "SparqlLexer"}],
     [text |-> <<"_", ":", "b">>,
      token |-> T1("BlankNode", <<"b">>),
      lexers |-> {"NTriplesLexer", "TurtleLexer", "SparqlLexer"}],
     [text |-> <<"\"", "x", "\"">>,
      token |-> T1("Literal", <<"x">>),
      lexers |-> {"NTriplesLexer", "TurtleLexer", "SparqlLexer"}],
     [text |-> <<"\"", "x", "\"", "@", "e", "n">>,
      token |-> T2("LiteralWithLanguageSpecification", <<"x">>, <<"e", "n">>),
      lexers |-> {"NTriplesLexer", "TurtleLexer", "SparqlLexer"}],
     [text |-> <<"\"", "x", "\"", "^", "^", "<", "t", ">">>,
      token |-> T2("LiteralWithUrlDatatype", <<"x">>, <<"t">>),
      lexers |-> {"NTriplesLexer", "TurtleLexer", "SparqlLexer"}],
     [text |-> <<".">>,
      token |-> T0("TripleDelimiter"),
      lexers |-> {"NTriplesLexer", "TurtleLexer", "SparqlLexer"}],
     [text |-> <<"#", " ", "c", "\n">>,
      token |-> T1("Comment", <<"c">>),
      lexers |-> {"NTriplesLexer", "TurtleLexer", "SparqlLexer"}],
     [text |-> <<"a">>,
      token |-> T0("KeywordA"),
      lexers |-> {"TurtleLexer"}],
     [text |-> <<"t", "r", "u", "e">>,
      token |-> T2("LiteralWithUrlDatatype", <<"t", "r", "u", "e">>, XmlDataTypes_Boolean),
      lexers |-> {"TurtleLexer"}],
     [text |-> <<"f", "a", "l", "s", "e">>,
      token |-> T2("LiteralWithUrlDatatype", <<"f", "a", "l", "s", "e">>, XmlDataTypes_Boolean),
      lexers |-> {"TurtleLexer"}],
     [text |-> <<"5">>,
      token |-> T2("LiteralWithUrlDatatype", <<"5">>, XmlDataTypes_Integer),
      lexers |-> {"TurtleLexer", "SparqlLexer"}],
     [text |-> <<"1", ".", "5">>,
      token |-> T2("LiteralWithUrlDatatype", <<"1", ".", "5">>, XmlDataTypes_Double),
      lexers |-> {"TurtleLexer", "SparqlLexer"}],
     [text |-> <<"e", ":", "x">>,
      token |-> T2("QName", <<"e", ":">>, <<"x">>),
      lexers |-> {"TurtleLexer"}],
     [text |-> <<";">>,
      token |-> T0("PredicateListDelimiter"),
      lexers |-> {"TurtleLexer", "SparqlLexer"}],
     [text |-> <<",">>,
      token |-> T0("ObjectListDelimiter"),
      lexers |-> {"TurtleLexer", "SparqlLexer"}],
     [text |-> <<"[">>,
      token |-> T0("UnlabeledBlankNodeStart"),
      lexers |-> {"TurtleLexer", "SparqlLexer"}],
     [text |-> <<"]">>,
      token |-> T0("UnlabeledBlankNodeEnd"),
      lexers |-> {"TurtleLexer", "SparqlLexer"}],
     [text |-> <<"(">>,
      token |-> T0("CollectionStart"),
      lexers |-> {"TurtleLexer"}],
     [text |-> <<")">>,
      token |-> T0("CollectionEnd"),
      lexers |-> {"TurtleLexer"}],
     [text |-> <<"'", "x", "'">>,
      token |-> T1("Literal", <<"x">>),
      lexers |-> {"TurtleLexer", "SparqlLexer"}],
     [text |-> <<"\"", "\"", "\"", "x", "\"", "\"", "\"">>,
      token |-> T1("Literal", <<"x">>),
      lexers |-> {"TurtleLexer", "SparqlLexer"}],
     [text |-> <<"\"", "x", "\"", "^", "^", "e", ":", "t">>,
      token |-> T3("LiteralWithQNameDatatype", <<"x">>, <<"e", ":">>, <<"t">>),
      lexers |-> {"TurtleLexer", "SparqlLexer"}],
     [text |-> <<"?", "v">>,
      token |-> T1("SparqlVariable", <<"v">>),
      lexers |-> {"SparqlLexer"}],
     [text |-> <<"*">>,
      token |-> T0("Asterisk"),
      lexers |-> {"SparqlLexer"}],
     [text |-> <<"{">>,
      token |-> T0("GroupStart"),
      lexers |-> {"SparqlLexer"}],
     [text |-> <<"}">>,
      token |-> T0("GroupEnd"),
      lexers |-> {"SparqlLexer"}],
     [text |-> <<"S", "E", "L", "E", "C", "T">>,
      token |-> T0("Select"),
      lexers |-> {"SparqlLexer"}],
     [text |-> <<"W", "H", "E", "R", "E">>,
      token |-> T0("Where"),
      lexers |-> {"SparqlLexer"}]}

\* words that SparqlKeyword::from_str does not list
SparqlOtherWords == {<<"x">>, <<"s", "e", "l", "e", "c", "t">>, <<"e", ":", "x">>, <<"W", "h", "e", "r", "e">>}

LexerKinds == {"NTriplesLexer", "TurtleLexer", "SparqlLexer"}
Separators == {<<" ">>, <<"\n">>}
IsLiteralText(text) == Head(text) \in {"\"", "'"}

TokenDocuments ==
    {[family |-> "tokens", first |-> a, sep |-> s, second |-> b, tail |-> t] :
        a \in LexerTokens, b \in LexerTokens,
        s \in Separators, t \in {<<>>, <<" ">>}}
      \cup {[family |-> "tokens", first |-> a, sep |-> <<>>, second |-> b, tail |-> <<" ">>] :
               a \in {x \in LexerTokens : IsLiteralText(x.text)},
               b \in {x \in LexerTokens : x.text = <<".">>}}

WordDocuments ==
    {[family |-> "word", first |-> [text |-> w, token |-> T0("none"), lexers |-> {"SparqlLexer"}],
      sep |-> <<" ">>, second |-> b, tail |-> <<" ">>] :
        w \in SparqlOtherWords,
        b \in {x \in LexerTokens : x.text \in {<<"<", "a", ">">>, <<"?", "v">>}}}

LexerText(d) == d.first.text \o d.sep \o d.second.text \o d.tail

TokenResult(x) == [err |-> x.err, v |-> x.v]

LexerInit ==
    /\ doc \in TokenDocuments \cup WordDocuments
    /\ mode \in LexerKinds \cap doc.first.lexers \cap doc.second.lexers
    /\ lexer = Lexer_new(LexerText(doc))
    /\ graph = NoneOpt
    /\ result = [got |-> <<>>, last |-> [op |-> "new"], peeks_ok |-> TRUE, calls |-> 0]

CanLex(kind) == mode = kind /\ result.calls < MaxTokenCalls

GotToken(x) ==
    [result EXCEPT !.got = Append(@, TokenResult(x)),
                   !.last = [op |-> "get_next_token", res |-> TokenResult(x)],
                   !.calls = @ + 1]

PeekedToken(x) ==
    [result EXCEPT !.last = [op |-> "peek_next_token", res |-> TokenResult(x)],
                   !.peeks_ok = @ /\ IsOk(x),
                   !.calls = @ + 1]

NTriplesGetNextToken ==
    /\ CanLex("NTriplesLexer")
    /\ \E x \in {NTriples_get_next_token(lexer)} :
         lexer' = x.r /\ result' = GotToken(x)
    /\ UNCHANGED <<doc, mode, graph>>

NTriplesPeekNextToken ==
    /\ CanLex("NTriplesLexer")
    /\ \E x \in {NTriples_peek_next_token(lexer)} :
         lexer' = x.r /\ result' = PeekedToken(x)
    /\ UNCHANGED <<doc, mode, graph>>

TurtleGetNextToken ==
    /\ CanLex("TurtleLexer")
    /\ \E x \in {Turtle_get_next_token(lexer)} :
         lexer' = x.r /\ result' = GotToken(x)
    /\ UNCHANGED <<doc, mode, graph>>

TurtlePeekNextToken ==
    /\ CanLex("TurtleLexer")
    /\ \E x \in {Turtle_peek_next_token(lexer)} :
         lexer' = x.r /\ result' = PeekedToken(x)
    /\ UNCHANGED <<doc, mode, graph>>

SparqlGetNextToken ==
    /\ CanLex("SparqlLexer")
    /\ \E x \in {Sparql_get_next_token(lexer)} :
         lexer' = x.r /\ result' = GotToken(x)
    /\ UNCHANGED <<doc, mode, graph>>

SparqlPeekNextToken ==
    /\ CanLex("SparqlLexer")
    /\ \E x \in {Sparql_peek_next_token(lexer)} :
         lexer' = x.r /\ result' = PeekedToken(x)
    /\ UNCHANGED <<doc, mode, graph>>

LexerNext ==
    \/ NTriplesGetNextToken
    \/ NTriplesPeekNextToken
    \/ TurtleGetNextToken
    \/ TurtlePeekNextToken
    \/ SparqlGetNextToken
    \/ SparqlPeekNextToken

LexerSpec == LexerInit /\ [][LexerNext]_vars
----------------------------------------------------------------------------
(* What the documents say: the triples a document states, read off its     *)
(* syntax tree.  The properties compare them with what decode returns.     *)

Finished == result \notin {"running", "writing"}

\* the node a term written <x>, _:x or "x" stands for
NodeOf(t) ==
    CASE t.t = "uri" -> UriNode(t.v)
      [] t.t = "blank" -> BlankNode(t.v)
      [] t.t = "literal" -> LiteralNode(t.v, t.dt, t.lang)
      [] t.t = "a" -> UriNode(RdfSyntaxDataTypes_A)

\* one triple per object, with the subject s and the predicate p
RECURSIVE ObjectTriples(_, _, _)
ObjectTriples(s, p, objs) ==
    IF objs = <<>> THEN <<>>
    ELSE <<Triple_new(s, p, NodeOf(Head(objs)))>>
           \o ObjectTriples(s, p, Tail(objs))

RECURSIVE PolTriples(_, _)
PolTriples(s, pol) ==
    IF pol = <<>> THEN <<>>
    ELSE ObjectTriples(s, NodeOf(Head(pol).p), Head(pol).objs)
           \o PolTriples(s, Tail(pol))

\* the triples of the statements of items, in document order
RECURSIVE StatedTriples(_)
StatedTriples(items) ==
    IF items = <<>> THEN <<>>
    ELSE (IF Head(items).i = "statement"
          THEN PolTriples(NodeOf(Head(items).s), Head(items).pol)
          ELSE <<>>)
           \o StatedTriples(Tail(items))

----------------------------------------------------------------------------
\* C2: a document of n simple statements S P O . decodes, with either
\* parser, to exactly n triples, the i-th carrying the i-th statement's
\* subject, predicate and object.
C2_SimpleStatements ==
    (doc.family = "simple" /\ Finished)
        => /\ result = "Ok"
           /\ Len(graph.triples) = Len(doc.items)
           /\ graph.triples = StatedTriples(doc.items)

C2_Witness ==
    /\ doc.family = "simple" /\ mode = "ntriples" /\ result = "Ok"
    /\ Len(doc.items) = MaxStmts
    /\ doc.items[1] # doc.items[2]
    /\ graph.triples = StatedTriples(doc.items)

----------------------------------------------------------------------------
----------------------------------------------------------------------------
----------------------------------------------------------------------------
(* Collections: the chain of rdf:first and rdf:rest triples of a graph *)

RdfFirst == UriNode(RdfSyntaxDataTypes_ListFirst)
RdfRest == UriNode(RdfSyntaxDataTypes_ListRest)
RdfNil == UriNode(RdfSyntaxDataTypes_ListNil)

\* the positions of the triples of ts with subject s and predicate p
TriplesOf(ts, s, p) ==
    {i \in 1..Len(ts) : ts[i].subject = s /\ ts[i].predicate = p}

WithPredicate(ts, p) == {i \in 1..Len(ts) : ts[i].predicate = p}

\* the elements of a collection term, those of nested collections included
RECURSIVE TotalElems(_)
TotalElems(elems) ==
    IF elems = <<>> THEN 0
    ELSE 1 + (IF Head(elems).t = "collection"
              THEN TotalElems(Head(elems).elems) ELSE 0)
           + TotalElems(Tail(elems))

\* the chain of ts that starts at node is the list elems, in order: one
\* rdf:first and one rdf:rest triple per cell, rdf:nil after the last cell
RECURSIVE IsChain(_, _, _)
IsChain(ts, node, elems) ==
    IF elems = <<>> THEN node = RdfNil
    ELSE /\ node.kind = "BlankNode"
         /\ Cardinality(TriplesOf(ts, node, RdfFirst)) = 1
         /\ Cardinality(TriplesOf(ts, node, RdfRest)) = 1
         /\ \A i \in TriplesOf(ts, node, RdfFirst) :
                IF Head(elems).t = "collection"
                THEN IsChain(ts, ts[i].object, Head(elems).elems)
                ELSE ts[i].object = NodeOf(Head(elems))
         /\ \A i \in TriplesOf(ts, node, RdfRest) :
                IsChain(ts, ts[i].object, Tail(elems))

\* the statement of a collection document holds its collection as subject
\* or as object
CollectionIsSubject == doc.items[1].s.t = "collection"
CollectionTerm ==
    IF CollectionIsSubject THEN doc.items[1].s ELSE doc.items[1].pol[1].objs[1]

\* C4: a collection of n >= 1 elements adds exactly n rdf:first and n
\* rdf:rest triples forming one chain in element order from the node
\* returned for the collection to rdf:nil; () is rdf:nil and adds no triples.
C4_Collection ==
    (doc.family = "collection" /\ Finished)
        => /\ result = "Ok"
           /\ Cardinality(WithPredicate(graph.triples, RdfFirst))
                  = TotalElems(CollectionTerm.elems)
           /\ Cardinality(WithPredicate(graph.triples, RdfRest))
                  = TotalElems(CollectionTerm.elems)
           /\ Len(graph.triples) = 1 + 2 * TotalElems(CollectionTerm.elems)
           /\ Cardinality({graph.triples[i].subject :
                              i \in WithPredicate(graph.triples, RdfFirst)})
                  = TotalElems(CollectionTerm.elems)
           /\ Cardinality(WithPredicate(graph.triples, UriNode(<<"p">>))) = 1
           /\ \A i \in WithPredicate(graph.triples, UriNode(<<"p">>)) :
                  IF CollectionIsSubject
                  THEN /\ graph.triples[i].object = UriNode(<<"c">>)
                       /\ IsChain(graph.triples, graph.triples[i].subject,
                                  CollectionTerm.elems)
                  ELSE /\ graph.triples[i].subject = UriNode(<<"a">>)
                       /\ IsChain(graph.triples, graph.triples[i].object,
                                  CollectionTerm.elems)

\* a collection of three elements, one of them a collection of two
C4_Witness ==
    /\ doc.family = "collection" /\ result = "Ok"
    /\ Len(CollectionTerm.elems) = MaxElems
    /\ \E k \in 1..MaxElems :
           /\ CollectionTerm.elems[k].t = "collection"
           /\ Len(CollectionTerm.elems[k].elems) = MaxNested
    /\ Len(graph.triples) = 1 + 2 * (MaxElems + MaxNested)

\* the empty collection
C4_WitnessEmpty ==
    /\ doc.family = "collection" /\ result = "Ok"
    /\ CollectionTerm.elems = <<>>
    /\ graph.triples = <<Triple_new(UriNode(<<"a">>), UriNode(<<"p">>), RdfNil)>>

----------------------------------------------------------------------------
(* Anonymous nodes.  The anonymous nodes of a document are numbered in the *)
(* order their '[' appears; f gives the k-th one its node.                  *)

\* a term read with next the number of the next anonymous node: its node,
\* the triples of its body and the number after it
RECURSIVE AnonTerm(_, _, _)
RECURSIVE AnonObjects(_, _, _, _, _)
RECURSIVE AnonPol(_, _, _, _)

AnonTerm(t, f, next) ==
    IF t.t = "anon"
    THEN The({[node |-> f[next], ts |-> body.ts, next |-> body.next] :
              body \in {AnonPol(f[next], t.pol, f, next + 1)}})
    ELSE [node |-> NodeOf(t), ts |-> <<>>, next |-> next]

AnonObjects(s, p, objs, f, next) ==
    IF objs = <<>> THEN [ts |-> <<>>, next |-> next]
    ELSE The({The({[ts |-> o.ts \o <<Triple_new(s, p, o.node)>> \o rest.ts,
                    next |-> rest.next] :
                   rest \in {AnonObjects(s, p, Tail(objs), f, o.next)}}) :
              o \in {AnonTerm(Head(objs), f, next)}})

AnonPol(s, pol, f, next) ==
    IF pol = <<>> THEN [ts |-> <<>>, next |-> next]
    ELSE The({The({[ts |-> first.ts \o rest.ts, next |-> rest.next] :
                   rest \in {AnonPol(s, Tail(pol), f, first.next)}}) :
              first \in {AnonObjects(s, NodeOf(Head(pol).p), Head(pol).objs,
                                     f, next)}})

AnonStatement(st, f) ==
    The({The({[ts |-> s.ts \o body.ts, next |-> body.next] :
              body \in {AnonPol(s.node, st.pol, f, s.next)}}) :
         s \in {AnonTerm(st.s, f, 1)}})

MaxAnons == 4        \* anonymous nodes of a document

\* the number of anonymous nodes of a statement
CountAnons(st) ==
    AnonStatement(st, [k \in 1..MaxAnons |-> BlankNode(<<>>)]).next - 1

\* the triples of a statement, one per object, the bodies of its anonymous
\* nodes included
CountObjects(st) ==
    Len(AnonStatement(st, [k \in 1..MaxAnons |-> BlankNode(<<>>)]).ts)

\* the blank nodes of ts that the document does not name
Minted(ts) ==
    {n \in {ts[i].subject : i \in 1..Len(ts)} \cup {ts[i].object : i \in 1..Len(ts)} :
        n.kind = "BlankNode" /\ n \notin {BlankNode(<<"b">>), BlankNode(<<"d">>)}}

Occurrences(ts, x) == Cardinality({i \in 1..Len(ts) : ts[i] = x})

\* the same triples the same number of times
SameTriples(ts, us) ==
    /\ Len(ts) = Len(us)
    /\ \A i \in 1..Len(ts) : Occurrences(ts, ts[i]) = Occurrences(us, ts[i])

\* C5: each [ ... ] mints exactly one blank node, different from that of any
\* other [ ... ]; an empty body adds no triples, a non-empty body one triple
\* per object of its predicate-object list, all with that node as subject,
\* at every nesting depth.
C5_AnonymousNodes ==
    (doc.family = "anon" /\ Finished)
        => /\ result = "Ok"
           /\ Cardinality(Minted(graph.triples)) = CountAnons(doc.items[1])
           /\ Len(graph.triples) = CountObjects(doc.items[1])
           /\ \E f \in [1..CountAnons(doc.items[1]) -> Minted(graph.triples)] :
                  /\ \A j, k \in DOMAIN f : j # k => f[j] # f[k]
                  /\ SameTriples(graph.triples, AnonStatement(doc.items[1], f).ts)

\* [ q [ r [ q c ; r _:d ] ] ] p c .   three nodes, nested three deep
C5_Witness ==
    /\ doc.family = "anon" /\ result = "Ok"
    /\ CountAnons(doc.items[1]) >= 3
    /\ doc.items[1].s.t = "anon"
    /\ Len(graph.triples) >= 5
    /\ Cardinality(Minted(graph.triples)) >= 3

----------------------------------------------------------------------------
\* the nodes of the triples ts
NodesOf(ts) ==
    {ts[i].subject : i \in 1..Len(ts)} \cup {ts[i].predicate : i \in 1..Len(ts)}
        \cup {ts[i].object : i \in 1..Len(ts)}

\* the literal the i-th statement of a document of simple statements has as
\* its object
ObjectTerm(i) == doc.items[i].pol[1].objs[1]

\* C6: every LiteralNode of a graph built by either parser has at most one
\* of data_type and language: "x"@l has language l and no data type,
\* "x"^^<d> has data type d and no language, a bare literal has neither.
C6_LiteralAnnotation ==
    /\ \A n \in NodesOf(graph.triples) :
           n.kind = "LiteralNode" => (n.data_type = NoneOpt \/ n.language = NoneOpt)
    /\ (doc.family = "simple" /\ result = "Ok")
           => \A i \in 1..Len(doc.items) :
                  ObjectTerm(i).t = "literal"
                      => /\ graph.triples[i].object.kind = "LiteralNode"
                         /\ graph.triples[i].object.literal = ObjectTerm(i).v
                         /\ graph.triples[i].object.language = ObjectTerm(i).lang
                         /\ graph.triples[i].object.data_type = ObjectTerm(i).dt

\* "x y"@en and "x"^^<t> read by the N-Triples parser
C6_Witness ==
    /\ doc.family = "simple" /\ mode = "ntriples" /\ result = "Ok"
    /\ Len(doc.items) = 2
    /\ ObjectTerm(1).t = "literal" /\ ObjectTerm(1).lang # NoneOpt
    /\ ObjectTerm(2).t = "literal" /\ ObjectTerm(2).dt # NoneOpt
    /\ graph.triples[1].object.language = Some(<<"e", "n">>)
    /\ graph.triples[2].object.data_type = Some(<<"t">>)

----------------------------------------------------------------------------
\* C7: the keyword a in predicate position is read as rdf:type and the
\* tokens after it are read normally: <s> a <o> . decodes to exactly one
\* triple (<s>, rdf:type, <o>).
C7_KeywordA ==
    (doc.family = "keyword" /\ Finished)
        => /\ result = "Ok"
           /\ graph.triples = StatedTriples(doc.items)

\* decode has returned on the document <a> a <c> .
C7_Witness ==
    /\ doc.family = "keyword" /\ Finished
    /\ doc.items = <<Simple(UriA, DKeywordA, UriC)>>

----------------------------------------------------------------------------
(* QNames: what a document with prefix directives states *)

\* the local part with every ':' replaced by '/'
RECURSIVE Slashed(_)
Slashed(l) ==
    IF l = <<>> THEN <<>>
    ELSE <<IF Head(l) = ":" THEN "/" ELSE Head(l)>> \o Slashed(Tail(l))

\* the terms of a simple statement
TermsOf(st) == {st.s, st.pol[1].p, st.pol[1].objs[1]}

\* a term under the prefixes ns declared so far
ResolvedNode(t, ns) ==
    IF t.t = "qname" THEN UriNode(ns[t.p] \o Slashed(t.l)) ELSE NodeOf(t)

\* the triples of items under the prefixes ns declared before them, or
\* InvalidNamespace at the first QName whose prefix no directive precedes
RECURSIVE Resolved(_, _)
Resolved(items, ns) ==
    IF items = <<>> THEN [err |-> "Ok", ts |-> <<>>]
    ELSE IF Head(items).i = "prefix"
    THEN Resolved(Tail(items),
                  [p \in DOMAIN ns \cup {Head(items).name} |->
                      IF p = Head(items).name THEN Head(items).uri ELSE ns[p]])
    ELSE IF \E t \in TermsOf(Head(items)) : t.t = "qname" /\ t.p \notin DOMAIN ns
    THEN [err |-> "InvalidNamespace", ts |-> <<>>]
    ELSE The({[err |-> rest.err,
               ts |-> <<Triple_new(ResolvedNode(Head(items).s, ns),
                                   ResolvedNode(Head(items).pol[1].p, ns),
                                   ResolvedNode(Head(items).pol[1].objs[1], ns))>>
                        \o rest.ts] :
              rest \in {Resolved(Tail(items), ns)}})

\* C8: a QName p:local resolves to the URI of the latest prefix directive
\* for p that precedes it, with the local part appended (':' replaced by
\* '/'); with no directive for p before it decode fails with
\* InvalidNamespace; a later redeclaration leaves earlier triples unchanged.
C8_QNameResolution ==
    (doc.family = "qname" /\ Finished)
        => IF Resolved(doc.items, <<>>).err = "Ok"
           THEN /\ result = "Ok"
                /\ graph.triples = Resolved(doc.items, <<>>).ts
           ELSE result = "InvalidNamespace"

\* decode has returned on   @prefix P: <u1> .  P:x <p> <c> .
C8_Witness ==
    /\ doc.family = "qname" /\ Finished
    /\ doc.items = <<DPrefix(<<"P">>, <<"u", "1">>),
                     Simple(DQName(<<"P">>, <<"x">>), UriP, UriC)>>

----------------------------------------------------------------------------
\* C10: when the input ends in the middle of a statement, decode fails with
\* InvalidReaderInput.
C10_EndMidStatement ==
    (doc.family = "truncated" /\ Finished) => result = "InvalidReaderInput"

\* the Turtle parser has returned on   <a> <p>
C10_Witness ==
    /\ doc.family = "truncated" /\ mode = "turtle" /\ Finished
    /\ Render(doc) = <<"<", "a", ">", " ", "<", "p", ">">>

----------------------------------------------------------------------------
(* Round trip: the graph handed to the writer against the graph decoded    *)
(* from the text the writer has written                                     *)

BlankNodesOf(ts) == {n \in NodesOf(ts) : n.kind = "BlankNode"}

\* the triple t with its blank nodes renamed by f
Renamed(t, f) ==
    Triple_new(IF t.subject.kind = "BlankNode" THEN f[t.subject] ELSE t.subject,
               IF t.predicate.kind = "BlankNode" THEN f[t.predicate] ELSE t.predicate,
               IF t.object.kind = "BlankNode" THEN f[t.object] ELSE t.object)

\* the same set of triples up to a renaming of blank nodes
SameUpToBlankRenaming(ts, us) ==
    \E f \in [BlankNodesOf(ts) -> BlankNodesOf(us)] :
        /\ \A m, n \in DOMAIN f : m # n => f[m] # f[n]
        /\ {Renamed(ts[i], f) : i \in 1..Len(ts)} = {us[i] : i \in 1..Len(us)}

\* the writer has written the graph and the parser has returned
RoundTripDone ==
    mode = "roundtrip" /\ Finished /\ result # "InvalidWriterOutput"

\* C1: for every graph the writer accepts, decode of the written text
\* succeeds and yields the same number of triples and the same set of
\* triples up to a renaming of blank nodes.
C1_RoundTrip ==
    RoundTripDone
        => /\ result = "Ok"
           /\ Len(graph.triples) = Len(doc.graph.triples)
           /\ SameUpToBlankRenaming(doc.graph.triples, graph.triples)

\* the parser has returned on what the writer wrote for (<a>, <p>, 5 as
\* xsd:integer)
C1_Witness ==
    /\ RoundTripDone
    /\ doc.graph.namespaces = <<>> /\ doc.graph.base_uri = NoneOpt
    /\ doc.graph.triples =
           <<Triple_new(UriNode(<<"a">>), UriNode(<<"p">>),
                        LiteralNode(<<"5">>, Some(XmlDataTypes_Integer), NoneOpt))>>


----------------------------------------------------------------------------
(* C11: a well-formed token in a position that does not allow it (a literal *)
(* as subject or predicate, ';' where an object is expected) makes decode   *)
(* fail with InvalidToken, in the N-Triples parser as well as in Turtle.    *)
MisplacedToken == doc.family \in {"misplaced", "punctuation"}

C11_MisplacedToken ==
    (MisplacedToken /\ Finished) => result = "InvalidToken"

\* C11 as the code has it: TurtleParser::decode fails with InvalidToken,
\* NTriplesParser::decode reports the same mismatch as InvalidReaderInput
C11_ErrorKindByParser ==
    (MisplacedToken /\ Finished) =>
        result = IF mode = "ntriples" THEN "InvalidReaderInput"
                 ELSE "InvalidToken"

C11_Witness ==
    /\ doc.family = "misplaced" /\ mode = "ntriples" /\ Finished
    /\ doc.items = <<Simple(LiteralX, UriP, UriC)>>
    /\ result = "InvalidReaderInput"

C11_WitnessTurtle ==
    /\ doc.family = "punctuation" /\ mode = "turtle"
    /\ result = "InvalidToken"

----------------------------------------------------------------------------
(* C12: NTriplesWriter.write_to_string and TurtleWriter.write_to_string     *)
(* fail with InvalidWriterOutput, returning no text, exactly when the graph *)
(* holds a triple with a literal subject, a literal or blank-node           *)
(* predicate, or a literal object with both a data type and a language;     *)
(* for every other graph they return text.                                  *)
Written == result.err # "writing"

InvalidForWriting(t) ==
    \/ t.subject.kind = "LiteralNode"
    \/ t.predicate.kind \in {"LiteralNode", "BlankNode"}
    \/ /\ t.object.kind = "LiteralNode"
       /\ t.object.data_type # NoneOpt
       /\ t.object.language # NoneOpt

Refused(g) == \E i \in 1..Len(g.triples) : InvalidForWriting(g.triples[i])

C12_WriterRefusal ==
    Written => IF Refused(graph)
               THEN result = [err |-> "InvalidWriterOutput", v |-> <<>>]
               ELSE /\ result.err = "Ok"
                    /\ graph.triples # <<>> => result.v # <<>>

C12_Witness ==
    /\ mode = "NTriplesWriter" /\ Written
    /\ Len(graph.triples) = 3
    /\ ~InvalidForWriting(graph.triples[1])
    /\ ~InvalidForWriting(graph.triples[2])
    /\ graph.triples[3].predicate.kind = "BlankNode"
    /\ result.err = "InvalidWriterOutput"

C12_WitnessTurtle ==
    /\ mode = "TurtleWriter" /\ Written
    /\ Len(graph.triples) = 2
    /\ ~InvalidForWriting(graph.triples[1])
    /\ graph.triples[2].subject.kind = "LiteralNode"
    /\ result.err = "InvalidWriterOutput"

C12_WitnessText ==
    /\ mode = "NTriplesWriter" /\ Written
    /\ Len(graph.triples) = 2 /\ ~Refused(graph)
    /\ result.err = "Ok" /\ result.v # <<>>

----------------------------------------------------------------------------
(* C13: for a graph of T stored triples with P distinct (subject,           *)
(* predicate) pairs and S distinct subjects, TurtleWriter writes S          *)
(* statement terminators ' .', P - S continuations ' ;' and T - P           *)
(* continuations ' ,', whatever order the triples were inserted in.         *)
Subjects(g) == {g.triples[i].subject : i \in 1..Len(g.triples)}

SubjectPredicates(g) ==
    {<<g.triples[i].subject, g.triples[i].predicate>> : i \in 1..Len(g.triples)}

\* the text after the @base and @prefix lines
StatementsText(g, text) ==
    SubSeq(text,
           Len(write_base_uri(g, The(Orders(g.namespaces))))
             + Len(write_prefixes(g, The(Orders(g.namespaces)))) + 1,
           Len(text))

\* how often a space followed by c occurs in text
Written_count(text, c) ==
    Cardinality({i \in 1..(Len(text) - 1) : text[i] = " " /\ text[i + 1] = c})

C13_Continuations ==
    (mode = "TurtleWriter" /\ result.err = "Ok") =>
        /\ Written_count(StatementsText(graph, result.v), ".")
             = Cardinality(Subjects(graph))
        /\ Written_count(StatementsText(graph, result.v), ";")
             = Cardinality(SubjectPredicates(graph)) - Cardinality(Subjects(graph))
        /\ Written_count(StatementsText(graph, result.v), ",")
             = Len(graph.triples) - Cardinality(SubjectPredicates(graph))

\* three triples of two subjects, stored with the other subject in between
C13_Witness ==
    /\ mode = "TurtleWriter" /\ result.err = "Ok"
    /\ Len(graph.triples) = 3
    /\ graph.triples[1].subject = graph.triples[3].subject
    /\ graph.triples[1].subject # graph.triples[2].subject
    /\ graph.triples[1].predicate = graph.triples[3].predicate
    /\ graph.triples[1].object # graph.triples[3].object
    /\ Written_count(StatementsText(graph, result.v), ",") = 1

C13_WitnessDuplicate ==
    /\ mode = "TurtleWriter" /\ result.err = "Ok"
    /\ Len(graph.triples) = 3
    /\ graph.triples[1] = graph.triples[2]
    /\ graph.triples[1].subject = graph.triples[3].subject
    /\ graph.triples[1].predicate # graph.triples[3].predicate
    /\ graph.namespaces # <<>> /\ graph.base_uri # NoneOpt

----------------------------------------------------------------------------
(* C14: after any sequence of add_triple and remove_triple calls the store  *)
(* holds the list obtained by appending the triple on every add (a          *)
(* duplicate is stored again) and deleting every equal triple on every      *)
(* remove, the order of the others kept; count() is the length of that      *)
(* list and is_empty() holds iff it is 0.                                   *)

\* the entries of seq at the indices idx, in ascending order of index
Pick(seq, idx) ==
    [k \in 1..Cardinality(idx) |->
        seq[CHOOSE i \in idx : Cardinality({j \in idx : j <= i}) = k]]

RECURSIVE StoredAfter(_)
StoredAfter(ops) ==
    IF ops = <<>> THEN <<>>
    ELSE IF ops[Len(ops)].op = "add_triple"
    THEN StoredAfter(SubSeq(ops, 1, Len(ops) - 1)) \o ops[Len(ops)].args
    ELSE IF ops[Len(ops)].op = "remove_triple"
    THEN Pick(StoredAfter(SubSeq(ops, 1, Len(ops) - 1)),
              {i \in 1..Len(StoredAfter(SubSeq(ops, 1, Len(ops) - 1))) :
                  StoredAfter(SubSeq(ops, 1, Len(ops) - 1))[i] # ops[Len(ops)].args[1]})
    ELSE StoredAfter(SubSeq(ops, 1, Len(ops) - 1))

C14_StoredList ==
    /\ graph.triples = StoredAfter(doc.ops)
    /\ count(graph) = Len(StoredAfter(doc.ops))
    /\ is_empty(graph) <=> Len(StoredAfter(doc.ops)) = 0
    /\ result.op = "count" => result.v = Len(StoredAfter(doc.ops))
    /\ result.op = "is_empty" => (result.v <=> Len(StoredAfter(doc.ops)) = 0)

\* a triple added twice, another added between, then the first removed
C14_Witness ==
    /\ Len(doc.ops) = 3
    /\ doc.ops[1].op = "add_triple" /\ doc.ops[2].op = "add_triple"
    /\ doc.ops[1].args = doc.ops[2].args
    /\ doc.ops[3].op = "remove_triple" /\ doc.ops[3].args = doc.ops[1].args
    /\ result.op = "is_empty" /\ result.v = TRUE

C14_WitnessOrder ==
    /\ Len(doc.ops) = 3
    /\ doc.ops[1].op = "add_triple" /\ doc.ops[2].op = "add_triple"
    /\ doc.ops[1].args # doc.ops[2].args
    /\ doc.ops[3].op = "remove_triple" /\ doc.ops[3].args = doc.ops[1].args
    /\ result.op = "count" /\ result.v = 1
    /\ graph.triples = doc.ops[2].args

----------------------------------------------------------------------------
(* C15: each of the six lookups returns exactly the stored triples whose    *)
(* named positions equal the given nodes, with their multiplicity and in    *)
(* the order of insertion, and leaves the store unchanged.                  *)
PositionsOf(op) ==
    CASE op = "get_triples_with_subject" -> <<"subject">>
      [] op = "get_triples_with_predicate" -> <<"predicate">>
      [] op = "get_triples_with_object" -> <<"object">>
      [] op = "get_triples_with_subject_and_object" -> <<"subject", "object">>
      [] op = "get_triples_with_subject_and_predicate" -> <<"subject", "predicate">>
      [] op = "get_triples_with_predicate_and_object" -> <<"predicate", "object">>
      [] OTHER -> <<>>

Selected(t, positions, nodes) ==
    \A k \in 1..Len(positions) : t[positions[k]] = nodes[k]

C15_Lookups ==
    PositionsOf(result.op) # <<>> =>
        /\ result.v = Pick(graph.triples,
                           {i \in 1..Len(graph.triples) :
                               Selected(graph.triples[i], PositionsOf(result.op),
                                        result.args)})
        /\ graph = doc.before

\* a triple stored twice around one of another subject, looked up by subject
C15_Witness ==
    /\ result.op = "get_triples_with_subject"
    /\ Len(graph.triples) = 3
    /\ graph.triples[1] = graph.triples[3]
    /\ graph.triples[2].subject # graph.triples[1].subject
    /\ result.args = <<graph.triples[1].subject>>
    /\ result.v = <<graph.triples[1], graph.triples[1]>>

C15_WitnessTwo ==
    /\ result.op = "get_triples_with_subject_and_object"
    /\ Len(graph.triples) = 3
    /\ Len(result.v) = 1
    /\ result.v[1] = graph.triples[2]

----------------------------------------------------------------------------
(* C16: the k-th call of create_blank_node on a graph (counting from 0)     *)
(* returns the blank node "auto" followed by k in decimal, whatever other   *)
(* operations of the graph are called in between; the counter never         *)
(* decreases and no id is returned twice.                                   *)
C16_BlankNodeIds ==
    /\ \A k \in 1..Len(doc.created) :
           doc.created[k] = [kind |-> "BlankNode",
                             id |-> <<"a", "u", "t", "o">> \o ToDecimal(k - 1)]
    /\ \A j, k \in 1..Len(doc.created) : j # k => doc.created[j] # doc.created[k]
    /\ graph.next_id >= doc.before.next_id
    /\ result.op = "create_blank_node" =>
           /\ result.v = doc.created[Len(doc.created)]
           /\ graph.next_id = doc.before.next_id + 1

\* two calls with a set_base_uri between them
C16_Witness ==
    /\ Len(doc.ops) = 3
    /\ doc.ops[1].op = "create_blank_node"
    /\ doc.ops[2].op = "set_base_uri"
    /\ doc.ops[3].op = "create_blank_node"
    /\ result.op = "create_blank_node"
    /\ result.v.id = <<"a", "u", "t", "o", "1">>

----------------------------------------------------------------------------
(* C17: the NamespaceStore keeps one URI per prefix: add of a prefix        *)
(* already present replaces its URI, get_uri_by_prefix returns the URI      *)
(* last added for the prefix, and for a prefix never added it fails with    *)
(* InvalidNamespace and leaves the store unchanged.                         *)
RECURSIVE LastAdded(_, _)
LastAdded(ops, prefix) ==
    IF ops = <<>> THEN NoneOpt
    ELSE IF ops[Len(ops)].op = "add_namespace" /\ ops[Len(ops)].args[1] = prefix
         THEN Some(ops[Len(ops)].args[2])
         ELSE LastAdded(SubSeq(ops, 1, Len(ops) - 1), prefix)

C17_Namespaces ==
    /\ DOMAIN graph.namespaces
         = {prefix \in StorePrefixes : LastAdded(doc.ops, prefix) # NoneOpt}
    /\ result.op = "get_namespace_uri_by_prefix" =>
           /\ graph = doc.before
           /\ IF LastAdded(doc.ops, result.args[1]) = NoneOpt
              THEN result.v.err = "InvalidNamespace"
              ELSE /\ result.v.err = "Ok"
                   /\ result.v.v = LastAdded(doc.ops, result.args[1])[1]

\* a prefix added twice with different URIs, then looked up
C17_Witness ==
    /\ Len(doc.ops) >= 2
    /\ doc.ops[1].op = "add_namespace" /\ doc.ops[2].op = "add_namespace"
    /\ doc.ops[1].args[1] = doc.ops[2].args[1]
    /\ doc.ops[1].args[2] # doc.ops[2].args[2]
    /\ result.op = "get_namespace_uri_by_prefix"
    /\ result.args = <<doc.ops[1].args[1]>>
    /\ result.v = [err |-> "Ok", v |-> doc.ops[2].args[2]]

C17_WitnessNeverAdded ==
    /\ Len(doc.ops) = 3
    /\ result.op = "get_namespace_uri_by_prefix"
    /\ result.args = <<<<"r">>>>
    /\ result.v.err = "InvalidNamespace"
    /\ graph.namespaces # <<>>

----------------------------------------------------------------------------
\* parse_group has peeked a token that none of its arms consumes: the token
\* stays peeked, and every round of the loop finds it again
Looping ==
    /\ SparqlAt("parse_group")
    /\ lexer.peeked_token # NoneOpt
    /\ lexer.peeked_token[1].k \notin {"SparqlVariable", "BlankNode", "QName", "Uri",
                                       "Optional", "GroupStart", "GroupEnd"}

\* no step of the parser leads out of such a round
LoopsForever == [][~Looping]_vars

(* C18: SparqlParser.decode returns, a query or an error, on every finite   *)
(* input: a group that holds FILTER, UNION or any token other than the      *)
(* start of a triple pattern, OPTIONAL, '{' or '}', and a group still open  *)
(* when the input ends, each lead to a return, never to parse_group going   *)
(* round its loop without consuming input. As a property of states: decode  *)
(* has returned, or the round of the loop it is in consumes input.          *)
C18_DecodeReturns == result # "running" \/ ~Looping

C18_Witness ==
    /\ doc.group = <<"{", " ", "F", "I", "L", "T", "E", "R", " ", "}">>
    /\ Looping
    /\ lexer.peeked_token[1].k = "Filter"

C18_WitnessOpen ==
    /\ doc.group = <<"{", " ">>
    /\ Looping
    /\ lexer.peeked_token[1].k = "EndOfInput"

----------------------------------------------------------------------------
(* C19: the query type of a decoded SELECT query is a function of the       *)
(* modifier and the projection: with a variable list, no modifier,          *)
(* DISTINCT and REDUCED give Select, SelectDistinct and SelectReduced; with *)
(* '*' they give SelectAll, SelectAllDistinct and SelectAllReduced; any     *)
(* other token where the projection is expected fails with InvalidToken,    *)
(* and a first token other than SELECT fails decode.                        *)
IsSelect == doc.start = <<"S", "E", "L", "E", "C", "T">>

QueryTypeOf(modifier, kind) ==
    CASE modifier = <<>> /\ kind = "vars" -> "Select"
      [] modifier = <<"D", "I", "S", "T", "I", "N", "C", "T">> /\ kind = "vars" ->
           "SelectDistinct"
      [] modifier = <<"R", "E", "D", "U", "C", "E", "D">> /\ kind = "vars" ->
           "SelectReduced"
      [] modifier = <<>> /\ kind = "star" -> "SelectAll"
      [] modifier = <<"D", "I", "S", "T", "I", "N", "C", "T">> /\ kind = "star" ->
           "SelectAllDistinct"
      [] modifier = <<"R", "E", "D", "U", "C", "E", "D">> /\ kind = "star" ->
           "SelectAllReduced"
      [] OTHER -> "none"

C19_QueryType ==
    /\ result = "Ok" =>
           /\ IsSelect
           /\ graph.query_type = QueryTypeOf(doc.modifier, doc.projection.kind)
    /\ (IsSelect /\ mode.at = "parse_group") =>
           graph.query_type = QueryTypeOf(doc.modifier, doc.projection.kind)
    /\ (IsSelect /\ doc.projection.kind = "other" /\ result # "running") =>
           result = "InvalidToken"
    /\ (~IsSelect /\ result # "running") =>
           result \in {"InvalidToken", "InvalidSparqlInput"}

C19_Witness ==
    /\ result = "Ok"
    /\ doc.modifier = <<"R", "E", "D", "U", "C", "E", "D">>
    /\ doc.projection.kind = "star"
    /\ graph.query_type = "SelectAllReduced"

C19_WitnessVariables ==
    /\ result = "Ok" /\ doc.comment
    /\ doc.modifier = <<"D", "I", "S", "T", "I", "N", "C", "T">>
    /\ doc.projection.kind = "vars"
    /\ graph.query_type = "SelectDistinct"

C19_WitnessOther ==
    /\ IsSelect /\ doc.projection.kind = "other" /\ doc.projection.text = <<>>
    /\ doc.where /\ result = "InvalidToken"

----------------------------------------------------------------------------
(* C20: for a query SELECT v1 ... vn WHERE { ... } that decodes,            *)
(* get_query_variables returns exactly the names v1..vn in the order        *)
(* written, without the sigil '?' or '$'; variables that occur only in the  *)
(* group are not in the list, and the query holds exactly one root group    *)
(* pattern.                                                                 *)
NamesOf(vs) == [k \in 1..Len(vs) |-> vs[k].name]

C20_QueryVariables ==
    (result = "Ok" /\ doc.projection.kind = "vars") =>
        /\ graph.variables = NamesOf(doc.projection.vars)
        /\ Len(graph.patterns) = 1
        /\ graph.patterns[1].pattern = "GroupPattern"

\* three variables of both sigils, and a group with variables of its own
C20_Witness ==
    /\ result = "Ok" /\ doc.where
    /\ Len(doc.projection.vars) = 3
    /\ graph.variables = <<<<"b">>, <<"a">>, <<"p">>>>
    /\ Len(graph.patterns[1].patterns) = 2
    /\ graph.patterns[1].patterns[1].pattern = "TriplePattern"
    /\ graph.patterns[1].patterns[1].object = [node |-> "VariableNode", name |-> <<"o">>]

----------------------------------------------------------------------------
\* the stream of a reader over text: its characters, then None for ever
Padded(text, i) == IF i <= Len(text) THEN text[i] ELSE NoneChar
PaddedSlice(text, from, n) == [j \in 1..n |-> Padded(text, from + j - 1)]

IsPeek == result.op \in {"peek_next_char", "peek_next_k_chars"}
IsGet == result.op \in {"get_next_char", "get_next_k_chars"}

(* C23: for any sequence of get_next_char, get_next_k_chars, peek_next_char *)
(* and peek_next_k_chars calls on an InputReader, the characters returned   *)
(* by the get calls are the input's characters in order, each exactly once; *)
(* every peek returns the characters the following gets will return; and    *)
(* the underlying stream is read only when the pushback buffer is empty:    *)
(* a call moves the stream only when it asks for more characters than the   *)
(* buffer holds, and the buffer is the part of the input that follows the   *)
(* characters already got.                                                  *)
C23_ReaderOrder ==
    (mode = "InputReader" /\ doc.plain) =>
        /\ doc.got = PaddedSlice(doc.text, 1, Len(doc.got))
        /\ lexer.input_reader.peeked_chars =
               PaddedSlice(doc.text, Len(doc.got) + 1,
                           Len(lexer.input_reader.peeked_chars))
        /\ IsPeek => result.v = PaddedSlice(doc.text, Len(doc.got) + 1, result.k)
        /\ IsPeek => get_next_k_chars(lexer.input_reader, result.k).chars = result.v
        /\ lexer.input_reader.pos # result.before.pos =>
               /\ result.k > Len(result.before.peeked_chars)
               /\ lexer.input_reader.pos - 1 =
                      IF Len(doc.got) + Len(lexer.input_reader.peeked_chars) < Len(doc.text)
                      THEN Len(doc.got) + Len(lexer.input_reader.peeked_chars)
                      ELSE Len(doc.text)

\* a peek of two characters on a buffer of one, then a get of three
C23_Witness ==
    /\ mode = "InputReader" /\ doc.plain /\ doc.calls = 3
    /\ doc.text = <<"a", ".", " ", "a">>
    /\ result.op = "get_next_k_chars" /\ result.k = 3
    /\ Len(result.before.peeked_chars) = 2
    /\ doc.got = <<"a", ".", " ">>

C23_WitnessEnd ==
    /\ mode = "InputReader" /\ doc.plain
    /\ doc.text = <<"a">>
    /\ result.op = "peek_next_k_chars" /\ result.k = 2
    /\ result.v = <<"a", NoneChar>>

----------------------------------------------------------------------------
IsPeekDiscard == mode = "InputReader" /\ result.op = "peek_next_char_discard_leading_spaces"

(* C24: peek_next_char_discard_leading_spaces does not consume the          *)
(* character it returns: from any reader state, including one whose         *)
(* pushback buffer already holds one or more characters, a repeated peek    *)
(* returns the same character and the next                                  *)
(* get_next_char_discard_leading_spaces returns it as well.                 *)
C24_PeekKeeps ==
    IsPeekDiscard =>
        /\ <<peek_next_char_discard_leading_spaces(lexer.input_reader).c>> = result.v
        /\ <<get_next_char_discard_leading_spaces(lexer.input_reader).c>> = result.v

\* the same, from the states whose buffer holds at most one character
C24_PeekKeepsShortBuffer ==
    (IsPeekDiscard /\ Len(result.before.peeked_chars) <= 1) =>
        /\ <<peek_next_char_discard_leading_spaces(lexer.input_reader).c>> = result.v
        /\ <<get_next_char_discard_leading_spaces(lexer.input_reader).c>> = result.v

\* the buffer held "a." and the peek returned 'a': the next get returns '.'
C24_Witness ==
    /\ IsPeekDiscard
    /\ result.before.peeked_chars = <<"a", ".">>
    /\ result.v = <<"a">>
    /\ get_next_char_discard_leading_spaces(lexer.input_reader).c = "."

C24_WitnessEmptyBuffer ==
    /\ IsPeekDiscard
    /\ result.before.peeked_chars = <<>>
    /\ result.v = <<"a">>
    /\ get_next_char_discard_leading_spaces(lexer.input_reader).c = "a"

----------------------------------------------------------------------------
\* what a reader has still to deliver: its buffer, then the unread stream
Pending(r) == to_string(r.peeked_chars) \o SubSeq(r.input, r.pos, Len(r.input))

\* the position of the first character of s that is in delimiter, or 0
RECURSIVE FirstIn(_, _)
FirstIn(s, delimiter) ==
    IF s = <<>> THEN 0
    ELSE IF Head(s) \in delimiter THEN 1
    ELSE IF FirstIn(Tail(s), delimiter) = 0 THEN 0
    ELSE 1 + FirstIn(Tail(s), delimiter)

IsGetUntil == mode = "InputReader" /\ result.op = "get_until"

(* C25: get_until(pred) returns the characters before the first character   *)
(* that satisfies pred and leaves that delimiter as the next character to   *)
(* be read; when the input ends before any character satisfies pred it      *)
(* fails with EndOfInput carrying every character the call has read.        *)
C25_GetUntil ==
    IsGetUntil =>
        IF FirstIn(Pending(result.before), result.k) > 0
        THEN /\ result.err = "Ok"
             /\ result.v = SubSeq(Pending(result.before), 1,
                                  FirstIn(Pending(result.before), result.k) - 1)
             /\ get_next_char(lexer.input_reader).c =
                    Pending(result.before)[FirstIn(Pending(result.before), result.k)]
             /\ Pending(lexer.input_reader) =
                    SubSeq(Pending(result.before),
                           FirstIn(Pending(result.before), result.k),
                           Len(Pending(result.before)))
        ELSE /\ result.err = "EndOfInput"
             /\ result.v = Pending(result.before)
             /\ Pending(lexer.input_reader) = <<>>

\* from a buffer holding "a.": the delimiter '.' is returned to the buffer
C25_Witness ==
    /\ IsGetUntil /\ result.err = "Ok"
    /\ result.before.peeked_chars = <<"a", ".">>
    /\ result.v = <<"a">>
    /\ lexer.input_reader.peeked_chars = <<".">>

C25_WitnessEnd ==
    /\ IsGetUntil /\ result.err = "EndOfInput"
    /\ result.k = whitespace
    /\ result.v = <<"a", ".", "a">>

----------------------------------------------------------------------------
OkToken(token) == [err |-> "Ok", v |-> token]

\* the results of the first n get_next_token calls on a lexer
RECURSIVE GetsOnly(_, _, _)
GetsOnly(kind, lx, n) ==
    IF n = 0 THEN <<>>
    ELSE <<TokenResult(get_next_token(kind, lx))>>
           \o GetsOnly(kind, get_next_token(kind, lx).r, n - 1)

FirstThenSecond ==
    /\ Len(result.got) >= 1 => result.got[1] = OkToken(doc.first.token)
    /\ Len(result.got) >= 2 => result.got[2] = OkToken(doc.second.token)

(* C21: each successful get_next_token consumes exactly the characters of   *)
(* the token it returns (plus leading whitespace): lexing the text of a     *)
(* token A, a separator, and the text of a token B yields A and then B, for *)
(* every token kind, including boolean literals, the `a` keyword, numeric   *)
(* literals, and a literal directly followed by '.'.  Checked on the texts  *)
(* in which B is followed by a space.                                       *)
C21_TokenByToken ==
    (doc.family = "tokens" /\ doc.tail = <<" ">>) => FirstThenSecond

\* the token texts after which the lexer does not stand behind the token
Overrun ==
    \/ mode = "TurtleLexer"
         /\ doc.first.text \in {<<"a">>, <<"t", "r", "u", "e">>, <<"f", "a", "l", "s", "e">>}
    \/ mode = "NTriplesLexer" /\ doc.first.text = <<"\"", "x", "\"">> /\ doc.sep = <<>>
    \/ mode = "SparqlLexer" /\ doc.first.token.k \in {"Select", "Where"}
         /\ doc.sep = <<"\n">>

\* all other pairs of tokens are lexed one after the other
C21_TokenByTokenOthers ==
    (doc.family = "tokens" /\ doc.tail = <<" ">> /\ ~Overrun) => FirstThenSecond

\* `a <a> ` in the Turtle lexer: KeywordA, and then no Uri
C21_Witness ==
    /\ doc.family = "tokens" /\ mode = "TurtleLexer"
    /\ doc.first.text = <<"a">> /\ doc.sep = <<" ">>
    /\ doc.second.text = <<"<", "a", ">">> /\ doc.tail = <<" ">>
    /\ Len(result.got) = 2 /\ result.calls = 2
    /\ result.got[1] = OkToken(T0("KeywordA"))
    /\ result.got[2] # OkToken(T1("Uri", <<"a">>))

\* `"x". ` in the N-Triples lexer: the literal, and then the end of input
C21_WitnessLiteralDot ==
    /\ doc.family = "tokens" /\ mode = "NTriplesLexer"
    /\ doc.first.text = <<"\"", "x", "\"">> /\ doc.sep = <<>>
    /\ Len(result.got) = 2 /\ result.calls = 2
    /\ result.got[1] = OkToken(T1("Literal", <<"x">>))
    /\ result.got[2] = OkToken(T0("EndOfInput"))

\* `5 1.5 ` in the Turtle lexer
C21_WitnessNumeric ==
    /\ doc.family = "tokens" /\ mode = "TurtleLexer"
    /\ doc.first.text = <<"5">> /\ doc.second.text = <<"1", ".", "5">>
    /\ doc.tail = <<" ">>
    /\ Len(result.got) = 2 /\ FirstThenSecond

----------------------------------------------------------------------------
(* C22: on every lexer (N-Triples, Turtle, SPARQL), repeated                *)
(* peek_next_token calls return the same token, the get_next_token that     *)
(* follows returns that token too, and the sequence of tokens returned by   *)
(* get_next_token calls is the same with and without interleaved            *)
(* successful peeks.                                                        *)
C22_PeekThenGet ==
    doc.family \in {"tokens", "word"} =>
        /\ (result.last.op = "peek_next_token" /\ result.last.res.err = "Ok") =>
               /\ TokenResult(peek_next_token(mode, lexer)) = result.last.res
               /\ TokenResult(get_next_token(mode, lexer)) = result.last.res
               /\ peek_next_token(mode, lexer).r = lexer
        /\ result.peeks_ok =>
               result.got = GetsOnly(mode, Lexer_new(LexerText(doc)), Len(result.got))

\* peek, peek, get, get on `<a> _:b`: the peeks return Uri, the gets Uri and
\* BlankNode
C22_Witness ==
    /\ doc.family = "tokens" /\ mode = "TurtleLexer" /\ result.peeks_ok
    /\ doc.first.text = <<"<", "a", ">">> /\ doc.second.text = <<"_", ":", "b">>
    /\ doc.tail = <<" ">>
    /\ result.calls = 4 /\ Len(result.got) = 2
    /\ result.got = <<OkToken(T1("Uri", <<"a">>)), OkToken(T1("BlankNode", <<"b">>))>>
    /\ lexer.peeked_token = NoneOpt

C22_WitnessSparql ==
    /\ doc.family = "tokens" /\ mode = "SparqlLexer" /\ result.peeks_ok
    /\ doc.first.text = <<"?", "v">>
    /\ result.last.op = "peek_next_token"
    /\ result.last.res = OkToken(T1("SparqlVariable", <<"v">>))
    /\ result.calls = 2 /\ result.got = <<>>

C22_WitnessNTriples ==
    /\ doc.family = "tokens" /\ mode = "NTriplesLexer" /\ result.peeks_ok
    /\ result.calls = 3 /\ Len(result.got) = 1
    /\ result.last.op = "peek_next_token"
    /\ result.last.res = OkToken(T0("TripleDelimiter"))

----------------------------------------------------------------------------
(* C28: in the SPARQL lexer a whitespace-delimited word that is not one of  *)
(* the listed keywords (compared case-sensitively) is lexed as a            *)
(* QName/identifier token rather than reported as an error.                 *)
C28_OtherWord ==
    (doc.family = "word" /\ result.calls = 1) =>
        /\ result.last.res.err = "Ok"
        /\ result.last.res.v.k = "QName"

\* the word `select` is answered with the error of SparqlKeyword::from_str
C28_Witness ==
    /\ doc.family = "word" /\ mode = "SparqlLexer"
    /\ doc.first.text = <<"s", "e", "l", "e", "c", "t">>
    /\ result.calls = 1 /\ result.last.op = "get_next_token"
    /\ result.last.res.err = "InvalidSparqlInput"

\* every such word is an error, and the call has consumed the word
C28_OtherWordIsError ==
    (doc.family = "word" /\ result.calls = 1) =>
        /\ result.last.res.err = "InvalidSparqlInput"
        /\ get_next_token(mode, lexer).v = doc.second.token

----------------------------------------------------------------------------
(* C26: a top-level Turtle statement is accepted only when its              *)
(* predicate-object list is terminated by '.': after an object, any token   *)
(* other than '.', ';' or ',' (in particular an unmatched ']') makes decode *)
(* fail.                                                                    *)
C26_TerminatedByDot ==
    (doc.family = "terminator" /\ Finished) => result # "Ok"

\* every such token but ']' makes decode fail, with InvalidToken
C26_OtherTokensFail ==
    (doc.family = "terminator" /\ Finished
       /\ doc.items[1].text[Len(doc.items[1].text)] # "]") =>
        result = "InvalidToken"

\* `<a> <p> <c> ]` and a second statement decode to two triples
C26_Witness ==
    /\ doc.family = "terminator" /\ Len(doc.items) = 2
    /\ doc.items[1].text[Len(doc.items[1].text)] = "]"
    /\ result = "Ok"
    /\ graph.triples =
           <<Triple_new(UriNode(<<"a">>), UriNode(<<"p">>), UriNode(<<"c">>)),
             Triple_new(UriNode(<<"a">>), UriNode(<<"q">>), UriNode(<<"c">>))>>

C26_WitnessFails ==
    /\ doc.family = "terminator" /\ Len(doc.items) = 2
    /\ doc.items[1].text[Len(doc.items[1].text)] = ")"
    /\ result = "InvalidToken"

----------------------------------------------------------------------------
\* the value written between the delimiters of the document's literal
LongLiteralValue(d) ==
    [i \in 1..Len(d.body) |-> IF d.body[i] = "Q" THEN d.q ELSE d.body[i]]

LongLiteralRead ==
    /\ result = "Ok"
    /\ graph.triples =
           <<Triple_new(UriNode(<<"a">>), UriNode(<<"p">>),
                        LiteralNode(LongLiteralValue(doc), NoneOpt, NoneOpt))>>

TwoQuotes(body) == \E i \in 1..(Len(body) - 1) : body[i] = "Q" /\ body[i + 1] = "Q"

(* C27: a triple-quoted literal ends only at three consecutive quote        *)
(* characters identical to its delimiter: one or two consecutive delimiter  *)
(* characters inside the body do not end the literal and are kept in its    *)
(* value.                                                                   *)
C27_LongLiteral ==
    (doc.family = "longliteral" /\ doc.closed /\ Finished) => LongLiteralRead

\* single delimiter characters inside the body are kept
C27_LongLiteralSingleQuotes ==
    (doc.family = "longliteral" /\ doc.closed /\ Finished /\ ~TwoQuotes(doc.body)) =>
        LongLiteralRead

\* """x""y""" is not read as the literal x""y
C27_Witness ==
    /\ doc.family = "longliteral" /\ doc.closed /\ doc.q = "\""
    /\ doc.body = <<"x", "Q", "Q", "y">>
    /\ Finished /\ result # "Ok"

C27_WitnessSingle ==
    /\ doc.family = "longliteral" /\ doc.closed /\ doc.q = "'"
    /\ doc.body = <<"x", "Q", "y", "Q", "z">>
    /\ LongLiteralRead

----------------------------------------------------------------------------
\* the ids create_blank_node has given out, and the labels the document
\* writes
MintedIds(g) == {<<"a", "u", "t", "o">> \o ToDecimal(i) : i \in 0..(g.next_id - 1)}
WrittenLabels(d) ==
    {d.items[1].s.v : x \in {y \in {1} : d.items[1].s.t = "blank"}}
      \cup {d.items[1].pol[1].objs[1].v :
              x \in {y \in {1} : d.items[1].pol[1].objs[1].t = "blank"}}

(* C29: in a graph returned by TurtleParser.decode, the blank nodes minted  *)
(* for collections and anonymous nodes are distinct from every blank node   *)
(* written with an explicit label in the input, including labels of the     *)
(* form `_:auto0`, `_:auto1`, and so on.                                    *)
C29_MintedDistinct ==
    (doc.family = "autolabel" /\ result = "Ok") =>
        MintedIds(graph) \cap WrittenLabels(doc) = {}

\* labels that are not of the form auto<n> are distinct from the minted ids
C29_MintedDistinctOtherLabels ==
    (doc.family = "autolabel" /\ result = "Ok"
       /\ WrittenLabels(doc) \subseteq {<<"b">>, <<"a", "u", "t", "o">>}) =>
        MintedIds(graph) \cap WrittenLabels(doc) = {}

\* `_:auto0 <p> [ ] .`: subject and object are one node
C29_Witness ==
    /\ doc.family = "autolabel" /\ result = "Ok"
    /\ doc.items[1].s = DBlank(<<"a", "u", "t", "o", "0">>)
    /\ doc.items[1].pol[1].objs[1] = DAnon(<<>>)
    /\ graph.triples =
           <<Triple_new(BlankNode(<<"a", "u", "t", "o", "0">>), UriNode(<<"p">>),
                        BlankNode(<<"a", "u", "t", "o", "0">>))>>

----------------------------------------------------------------------------
\* what the lexer of a parser has still to deliver: the characters not yet
\* read and the token it has peeked
Unread(lx) ==
    Len(Pending(lx.input_reader)) + (IF lx.peeked_token # NoneOpt THEN 1 ELSE 0)

\* the characters a round of the decode loop leaves unread when it is
\* started on lexer lx and graph g, or -1 when the round returns
TurtleRoundUnread(lx, g) ==
    The({IF ~IsOk(p) THEN -1
         ELSE CASE p.v.k = "Comment" -> Unread(Turtle_get_next_token(p.r).r)
                [] p.v.k = "BaseDirective" ->
                     The({IF IsOk(b) THEN Unread(b.r) ELSE -1 :
                          b \in {read_base_directive(p.r)}})
                [] p.v.k = "PrefixDirective" ->
                     The({IF IsOk(n) THEN Unread(n.r) ELSE -1 :
                          n \in {read_prefix_directive(p.r)}})
                [] p.v.k \in {"Uri", "BlankNode", "QName", "CollectionStart",
                              "UnlabeledBlankNodeStart"} ->
                     The({IF IsOk(t) THEN Unread(t.r.lexer) ELSE -1 :
                          t \in {read_triples(ParserState(p.r, g))}})
                [] OTHER -> -1 :
         p \in {Turtle_peek_next_token(lx)}})

NTriplesRoundUnread(lx) ==
    The({IF ~IsOk(p) THEN -1
         ELSE CASE p.v.k = "Comment" -> Unread(NTriples_get_next_token(p.r).r)
                [] p.v.k = "EndOfInput" -> -1
                [] OTHER ->
                     The({IF IsOk(t) THEN Unread(t.r) ELSE -1 :
                          t \in {NTriples_read_triple(p.r)}}) :
         p \in {NTriples_peek_next_token(lx)}})

\* the round a running decode is about to make returns or consumes input
RoundProgress ==
    /\ TurtleRunning => TurtleRoundUnread(lexer, graph) < Unread(lexer)
    /\ NTriplesRunning => NTriplesRoundUnread(lexer) < Unread(lexer)

(* C30: TurtleParser.decode and NTriplesParser.decode return (a graph or an *)
(* error) on every finite input: every iteration of the decode loop, of     *)
(* read_predicate_object_list, of read_collection and of the lexer's        *)
(* literal scanning either consumes at least one input character or ends    *)
(* the loop.  A round of the decode loop, with the loops that run inside    *)
(* it, returns or leaves fewer characters unread: the round a running       *)
(* decode is about to make, and every round it has made.                    *)
C30_DecodeProgress ==
    /\ []RoundProgress
    /\ [][result = "running" =>
            (result' # "running" \/ Unread(lexer') < Unread(lexer))]_vars

\* decode has returned from an unclosed literal in triple quotes that holds
\* a single quote character
C30_Witness ==
    /\ doc.family = "longliteral" /\ ~doc.closed
    /\ doc.body = <<"x", "Q", "y", "Q", "z">>
    /\ result = "EndOfInput"
    /\ Unread(lexer) = 0

\* decode has returned a graph after reading a collection of two elements
C30_WitnessCollection ==
    /\ doc.family = "collection" /\ mode = "turtle" /\ result = "Ok"
    /\ graph.next_id >= 2
    /\ Len(Pending(lexer.input_reader)) = 0

C30_WitnessNTriples ==
    /\ doc.family = "truncated" /\ mode = "ntriples" /\ Finished
    /\ Unread(lexer) = 0
=============================================================================
